---- MODULE Spec2Model ----
(***************************************************************************)
(* A model of the guest runtime of lua-redis-wasm: the exported entry      *)
(* points of wasm/src/runtime.c (init, reset, set_limits, eval,            *)
(* eval_with_args), the fuel hook, the reply encoder and the KEYS/ARGV     *)
(* frame parser, together with the part of wasm/src/redis_api.c that the   *)
(* entry points reach.  Buffers are sequences of bytes (0..255); a script  *)
(* is described by what the interpreter does when running it: how many     *)
(* instructions it dispatches, how many raised errors its own pcall        *)
(* catches, which bridge function or global it touches and what it         *)
(* returns.                                                                *)
(***************************************************************************)
EXTENDS Integers, Sequences, FiniteSets, TLC

VARIABLES
  g_state,           \* runtime.c:19  the interpreter pointer, NULL or an id
  g_fuel_remaining,  \* runtime.c:20
  g_fuel_limit,      \* runtime.c:21
  g_max_reply_bytes, \* runtime.c:22
  g_max_arg_bytes,   \* runtime.c:23
  g_resp_version,    \* redis_api.c:14
  lua,               \* the live interpreters: id -> interpreter state
  pc,                \* "idle": the host holds control; "running": a script runs
  call,              \* the entry-point call in progress
  last,              \* the observation of the last completed export call
  hist,              \* the last reset + eval_with_args pair (checked by SpecDet)
  heap               \* the guest's heap: who holds each block (followed by SpecHeap)

vars == <<g_state, g_fuel_remaining, g_fuel_limit, g_max_reply_bytes,
          g_max_arg_bytes, g_resp_version, lua, pc, call, last, hist, heap>>

guest == <<g_state, g_fuel_remaining, g_fuel_limit, g_max_reply_bytes,
           g_max_arg_bytes, g_resp_version, lua>>

-----------------------------------------------------------------------------
(* Program constants.                                                      *)

DEFAULT_FUEL_LIMIT == 10000000
FUEL_HOOK_STEP == 1000
REPLY_NULL == 0
REPLY_INT == 1
REPLY_BULK == 2
REPLY_ARRAY == 3
REPLY_STATUS == 4
REPLY_ERROR == 5
NULL == 0
\* A uint32_t (and, on the 32-bit guest, a size_t) is kept as two 16-bit halves,
\* [hi, lo]: HALF is 2^16.  Arithmetic on them is modulo 2^32.
HALF == 65536
\* The first capacity rb_reserve gives a ReplyBuffer.
RB_FIRST_CAP == 256
\* g_resp_version before any redis.setresp.
RESP_DEFAULT == 2
\* The lengths the entry points pass to reply_error / reply_status.
LEN_NOT_INIT == 26
LEN_OK == 2
LEN_UNSUPPORTED == 32
LEN_REPLY_LIMIT == 34
LEN_ENCODING_FAILED == 26
LEN_ARG_LIMIT == 40
LEN_INVALID_ARGS == 31

-----------------------------------------------------------------------------
(* Bytes and C strings.                                                    *)

AsciiTable ==
  <<" ","!","\"","#","$","%","&","'","(",")","*","+",",","-",".","/","0","1","2","3","4","5","6","7","8","9",":",";","<","=",">","?","@","A","B","C","D","E","F","G","H","I","J","K","L","M","N","O","P","Q","R","S","T","U","V","W","X","Y","Z","[","\\","]","^","_","GRAVE","a","b","c","d","e","f","g","h","i","j","k","l","m","n","o","p","q","r","s","t","u","v","w","x","y","z","{","|","}","~">>

\* The ASCII code of a printable character.
Asc(c) == 31 + (CHOOSE i \in 1..Len(AsciiTable) : AsciiTable[i] = c)

\* The bytes of a text, without a terminator.
Str(chars) == [i \in 1..Len(chars) |-> Asc(chars[i])]

\* A C string literal in memory: its characters and the terminating NUL.
CLit(bytes) == bytes \o <<0>>

\* memcpy(dst, src, n) from the object src: a byte past the end of the object is
\* an out-of-bounds read, whose value (junk) the build decides.
ReadBytes(src, n, junk) == [i \in 1..n |-> IF i <= Len(src) THEN src[i] ELSE junk]

MSG_NOT_INIT == Str(<<"E","R","R"," ","L","u","a"," ","V","M"," ","n","o","t"," ","i","n","i","t","i","a","l","i","z","e","d">>)
MSG_OK == Str(<<"O","K">>)
MSG_UNSUPPORTED == Str(<<"E","R","R"," ","u","n","s","u","p","p","o","r","t","e","d"," ","L","u","a"," ","r","e","t","u","r","n"," ","t","y","p","e">>)
MSG_REPLY_LIMIT == Str(<<"E","R","R"," ","r","e","p","l","y"," ","e","x","c","e","e","d","s"," ","c","o","n","f","i","g","u","r","e","d"," ","l","i","m","i","t">>)
MSG_ENCODING_FAILED == Str(<<"E","R","R"," ","r","e","p","l","y"," ","e","n","c","o","d","i","n","g"," ","f","a","i","l","e","d">>)
MSG_ARG_LIMIT == Str(<<"E","R","R"," ","K","E","Y","S","/","A","R","G","V"," ","e","x","c","e","e","d","s"," ","c","o","n","f","i","g","u","r","e","d"," ","l","i","m","i","t">>)
MSG_INVALID_ARGS == Str(<<"E","R","R"," ","i","n","v","a","l","i","d"," ","K","E","Y","S","/","A","R","G","V"," ","e","n","c","o","d","i","n","g">>)
MSG_FUEL == Str(<<"S","c","r","i","p","t"," ","k","i","l","l","e","d"," ","b","y"," ","f","u","e","l"," ","l","i","m","i","t">>)
\* luaL_where for the chunk named "@user_script".
CHUNK_WHERE == Str(<<"u","s","e","r","_","s","c","r","i","p","t",":","1",":"," ">>)

\* The uint32_t of a number 0 <= n < 2^31.
U32Of(n) == [hi |-> n \div HALF, lo |-> n % HALF]

\* a + b in 32 bits, with the carry out of bit 31.
U32AddCarry(a, b) ==
  LET lo == a.lo + b.lo
      hi == a.hi + b.hi + (lo \div HALF)
  IN  [carry |-> hi \div HALF, hi |-> hi % HALF, lo |-> lo % HALF]

U32Add(a, b) == [hi |-> U32AddCarry(a, b).hi, lo |-> U32AddCarry(a, b).lo]

U32Less(a, b) == a.hi < b.hi \/ (a.hi = b.hi /\ a.lo < b.lo)

write_u32_le(value) ==
  << value.lo % 256, value.lo \div 256, value.hi % 256, value.hi \div 256 >>

\* (uint64_t)value of an int64_t, then its eight bytes, low byte first.  The model's
\* numbers lie within (-2^31, 2^31): a negative value is the complement of -value-1.
write_i64_le(value) ==
  LET RECURSIVE bytes(_, _)
      bytes(u, k) == IF k = 0 THEN <<>> ELSE <<u % 256>> \o bytes(u \div 256, k - 1)
      flip(b) == [i \in 1..Len(b) |-> 255 - b[i]]
  IN  IF value < 0 THEN flip(bytes(-value - 1, 8)) ELSE bytes(value, 8)

\* The uint32_t stored low byte first at buf[at .. at+3] (offsets from 0).
read_u32_le(buf, at) ==
  [lo |-> buf[at + 1] + buf[at + 2] * 256, hi |-> buf[at + 3] + buf[at + 4] * 256]

-----------------------------------------------------------------------------
(* The allocator.  A call draws `fails`, the set of the allocation requests *)
(* (counted from 1 within the call) that malloc/realloc refuse.             *)

AllocOk(n, fails) == n \notin fails

\* What a call asks of the allocator, in order.  A block is named by the number
\* of the request that returned it (0: the NULL pointer).
Realloc(blk, to) == [op |-> "realloc", blk |-> blk, to |-> to]
Malloc(to) == [op |-> "malloc", blk |-> 0, to |-> to]
Free(blk) == [op |-> "free", blk |-> blk, to |-> 0]

-----------------------------------------------------------------------------
(* ReplyBuffer: data is the written prefix (rb->len = Len(data)), held is   *)
(* rb->data != NULL, blk the block rb->data points to, n counts the          *)
(* allocation requests made so far and ev lists the granted ones.  The      *)
(* model's replies stay far below 2^31 bytes, so rb->len, rb->cap and the   *)
(* sums on them are plain numbers.                                          *)

rb_init(n) == [data |-> <<>>, cap |-> 0, held |-> FALSE, n |-> n, blk |-> 0, ev |-> <<>>]

RECURSIVE GrowCap(_, _)
GrowCap(new_cap, needed) ==
  IF new_cap < needed THEN GrowCap(new_cap * 2, needed) ELSE new_cap

rb_reserve(rb, extra, fails) ==
  LET needed == Len(rb.data) + extra
      new_cap == GrowCap(IF rb.cap = 0 THEN RB_FIRST_CAP ELSE rb.cap, needed)
  IN  IF needed <= rb.cap THEN [rb |-> rb, rc |-> 0]
      ELSE IF ~AllocOk(rb.n + 1, fails)
           THEN [rb |-> [rb EXCEPT !.n = rb.n + 1], rc |-> -1]
           ELSE [rb |-> [rb EXCEPT !.n = rb.n + 1, !.cap = new_cap, !.held = TRUE,
                                   !.blk = rb.n + 1,
                                   !.ev = Append(rb.ev, Realloc(rb.blk, rb.n + 1))],
                 rc |-> 0]

rb_append(rb, bytes, fails) ==
  LET r == rb_reserve(rb, Len(bytes), fails)
  IN  IF r.rc # 0 THEN [rb |-> r.rb, rc |-> -1]
      ELSE [rb |-> [r.rb EXCEPT !.data = r.rb.data \o bytes], rc |-> 0]

\* A header whose count_or_len would be one too many.
HeaderOffByOne(rb, type, count_or_len, fails) ==
  rb_append(rb, <<type>> \o write_u32_le(U32Of(count_or_len + 1)), fails)

rb_write_header(rb, type, count_or_len, fails) ==
  rb_append(rb, <<type>> \o write_u32_le(U32Of(count_or_len)), fails)

\* A PtrLen: ptr is 0 or nonzero (the block it points to is named beside it, as
\* blk), bytes is the block's content.
NoBuffer == [ptr |-> 0, len |-> 0, bytes |-> <<>>]

\* A finalize that would hand out the scratch block itself instead of a copy.
FinalizeInPlace(rb, fails) ==
  IF ~rb.held \/ Len(rb.data) = 0
  THEN [out |-> NoBuffer, n |-> rb.n, blk |-> 0, ev |-> rb.ev]
  ELSE [out |-> [ptr |-> 1, len |-> Len(rb.data), bytes |-> rb.data],
        n |-> rb.n, blk |-> rb.blk, ev |-> rb.ev]

\* The result names the block of the copy (blk) and the requests granted so far.
rb_finalize(rb, fails) ==
  IF ~rb.held \/ Len(rb.data) = 0
  THEN [out |-> NoBuffer, n |-> rb.n, blk |-> 0, ev |-> rb.ev]
  ELSE IF ~AllocOk(rb.n + 1, fails)
  THEN [out |-> NoBuffer, n |-> rb.n + 1, blk |-> 0, ev |-> rb.ev]
  ELSE [out |-> [ptr |-> 1, len |-> Len(rb.data), bytes |-> rb.data],
        n |-> rb.n + 1, blk |-> rb.n + 1, ev |-> Append(rb.ev, Malloc(rb.n + 1))]

\* free(rb.data) after the call r that was handed rb.
ThenFree(r, rb) == [r EXCEPT !.ev = Append(r.ev, Free(rb.blk))]

\* The requests `ev` came first.
After(ev, r) == [r EXCEPT !.ev = ev \o r.ev]

\* reply_error and reply_status differ in the tag only.
ReplyText(tag, msg, len, junk, fails, n) ==
  LET h == rb_write_header(rb_init(n), tag, len, fails)
      a == rb_append(h.rb, ReadBytes(msg, len, junk), fails)
  IN  IF h.rc # 0 THEN [out |-> NoBuffer, n |-> h.rb.n, blk |-> 0, ev |-> h.rb.ev]
      ELSE IF a.rc # 0
      THEN ThenFree([out |-> NoBuffer, n |-> a.rb.n, blk |-> 0, ev |-> a.rb.ev], a.rb)
      ELSE ThenFree(rb_finalize(a.rb, fails), a.rb)

reply_error(msg, len, junk, fails, n) == ReplyText(REPLY_ERROR, msg, len, junk, fails, n)

reply_status(msg, len, junk, fails, n) == ReplyText(REPLY_STATUS, msg, len, junk, fails, n)

-----------------------------------------------------------------------------
(* The heap the guest's malloc, realloc and free share with the host's      *)
(* free_mem: own tells who holds each block ("free", "lua" the interpreter, *)
(* "scratch" a ReplyBuffer's data, "reply" the copy rb_finalize made,       *)
(* "host" a reply handed to the host), L is the interpreter's block, reply  *)
(* the block of the reply returned last, err what went wrong, after the     *)
(* call that preceded the host's last free_mem.                             *)

HeapSize == 5

Addrs == 1..HeapSize

NoHeap ==
  [own |-> [a \in Addrs |-> "free"], L |-> 0, reply |-> 0, err |-> {},
   after |-> "none"]

Held(h) == {a \in Addrs : h.own[a] = "host"}

FreeAddrs(h) == {a \in Addrs : h.own[a] = "free"}

\* The allocator hands out the lowest free block, so a freed block is the next
\* one to be used again.
malloc(h, who) ==
  LET a == CHOOSE x \in FreeAddrs(h) : \A y \in FreeAddrs(h) : x <= y
  IN  [h |-> [h EXCEPT !.own[a] = who], p |-> a]

free(h, p) ==
  IF p = 0 THEN h
  ELSE IF h.own[p] = "free" THEN [h EXCEPT !.err = @ \cup {"double free"}]
  ELSE [h EXCEPT !.own[p] = "free"]

\* A free the guest makes: a block the host holds is not the guest's to free.
GuestFree(h, p) ==
  IF p # 0 /\ h.own[p] = "host"
  THEN [free(h, p) EXCEPT !.err = @ \cup {"guest freed a reply"}]
  ELSE free(h, p)

\* The requests of one call, applied in order; at maps the call's block names
\* to addresses.
RECURSIVE Replay(_, _, _)
Replay(h, at, ev) ==
  IF ev = <<>> THEN [h |-> h, at |-> at]
  ELSE LET e == Head(ev)
           m == malloc(h, IF e.op = "realloc" THEN "scratch" ELSE "reply")
       IN  CASE e.op = "realloc" ->
                  Replay(GuestFree(m.h, at[e.blk]), (e.to :> m.p) @@ at, Tail(ev))
             [] e.op = "malloc" -> Replay(m.h, (e.to :> m.p) @@ at, Tail(ev))
             [] e.op = "free" -> Replay(GuestFree(h, at[e.blk]), at, Tail(ev))

\* The heap once the call observed as o has returned its reply to the host.
HeapAfterCall(h, o) ==
  LET r == Replay(h, (0 :> 0), o.ev)
      p == r.at[o.blk]
  IN  IF o.reply.ptr = 0 THEN [r.h EXCEPT !.reply = 0]
      ELSE IF r.h.own[p] # "reply"
      THEN [r.h EXCEPT !.reply = p, !.err = @ \cup {"reply is not a live block"}]
      ELSE [r.h EXCEPT !.reply = p, !.own[p] = "host"]

\* init and reset: lua_close releases the interpreter's memory, luaL_newstate
\* takes new memory when it succeeds.
HeapAfterLife(h, closed, created) ==
  LET c == IF closed THEN [GuestFree(h, h.L) EXCEPT !.L = 0] ELSE h
      m == malloc(c, "lua")
  IN  IF created THEN [m.h EXCEPT !.L = m.p] ELSE c

-----------------------------------------------------------------------------
(* Script values.  A number is ip + fr/10 with 0 <= fr <= 9 (fr > 0 only   *)
(* with ip >= 0); a table has its fields ok and err (nil when absent) and   *)
(* its array part.                                                          *)

LNil == [t |-> "nil"]
LBool(b) == [t |-> "boolean", b |-> b]
LNum(ip, fr) == [t |-> "number", ip |-> ip, fr |-> fr]
LStr(bytes) == [t |-> "string", s |-> bytes]
LFun == [t |-> "function"]
LTab(ok, err, arr) == [t |-> "table", ok |-> ok, err |-> err, arr |-> arr]

RECURSIVE Digits(_)
Digits(n) == IF n < 10 THEN <<48 + n>> ELSE Digits(n \div 10) \o <<48 + (n % 10)>>

\* The interpreter's "%.14g" form of a number.
NumStr(v) ==
  (IF v.ip < 0 THEN <<45>> \o Digits(-v.ip) ELSE Digits(v.ip))
    \o (IF v.fr = 0 THEN <<>> ELSE <<46, 48 + v.fr>>)

lua_isstring(v) == v.t \in {"string", "number"}

lua_tolstring(v) == IF v.t = "string" THEN v.s ELSE NumStr(v)

\* The interpreter's length of a table whose array part has Len(arr) slots and
\* whose hash part holds no integer key: all the slots when the last is not nil,
\* otherwise the border a binary search between 0 and the last slot finds.
RECURSIVE Border(_, _, _)
Border(arr, i, j) ==
  IF j - i <= 1 THEN i
  ELSE LET m == (i + j) \div 2
       IN  IF arr[m].t = "nil" THEN Border(arr, i, m) ELSE Border(arr, m, j)

lua_objlen(v) ==
  IF Len(v.arr) > 0 /\ v.arr[Len(v.arr)].t = "nil" THEN Border(v.arr, 0, Len(v.arr))
  ELSE Len(v.arr)

RECURSIVE encode_lua_value(_, _, _)
RECURSIVE EncodeItems(_, _, _, _)

\* The loop of encode_table over t[1..count], from index i.
EncodeItems(arr, i, rb, fails) ==
  IF i > Len(arr) THEN [rb |-> rb, rc |-> 0]
  ELSE LET e == encode_lua_value(arr[i], rb, fails)
       IN  IF e.rc # 0 THEN [rb |-> e.rb, rc |-> -1]
           ELSE EncodeItems(arr, i + 1, e.rb, fails)

BulkLike(tag, bytes, rb, fails) ==
  LET h == rb_write_header(rb, tag, Len(bytes), fails)
  IN  IF h.rc # 0 THEN [rb |-> h.rb, rc |-> -1] ELSE rb_append(h.rb, bytes, fails)

IntFrame(value, rb, fails) ==
  LET h == rb_write_header(rb, REPLY_INT, 8, fails)
  IN  IF h.rc # 0 THEN [rb |-> h.rb, rc |-> -1]
      ELSE rb_append(h.rb, write_i64_le(value), fails)

encode_table(v, rb, fails) ==
  LET has_ok == lua_isstring(v.ok)
      has_err == ~has_ok /\ lua_isstring(v.err)
      h == rb_write_header(rb, REPLY_ARRAY, lua_objlen(v), fails)
  IN  IF has_ok THEN BulkLike(REPLY_STATUS, lua_tolstring(v.ok), rb, fails)
      ELSE IF has_err THEN BulkLike(REPLY_ERROR, lua_tolstring(v.err), rb, fails)
      ELSE IF h.rc # 0 THEN [rb |-> h.rb, rc |-> -1]
      ELSE EncodeItems(SubSeq(v.arr, 1, lua_objlen(v)), 1, h.rb, fails)

encode_lua_value(v, rb, fails) ==
  CASE v.t = "nil" -> rb_write_header(rb, REPLY_NULL, 0, fails)
    [] v.t = "number" ->
         IF v.fr = 0 THEN IntFrame(v.ip, rb, fails)
         ELSE BulkLike(REPLY_BULK, lua_tolstring(v), rb, fails)
    [] v.t = "boolean" ->
         IF v.b THEN IntFrame(1, rb, fails)
         ELSE rb_write_header(rb, REPLY_NULL, 0, fails)
    [] v.t = "string" -> BulkLike(REPLY_BULK, lua_tolstring(v), rb, fails)
    [] v.t = "table" -> encode_table(v, rb, fails)
    [] OTHER -> [rb |-> rb, rc |-> -1]

-----------------------------------------------------------------------------
(* The interpreter.  Of its globals the model keeps the names the sandbox   *)
(* policy is about (each nil, a function or a table), the fields of the     *)
(* bridge namespace, one user global x, KEYS and ARGV, and hookcount, the   *)
(* number of instructions left until the count hook fires next.             *)

RemovedGlobals == {"io", "os", "debug", "package", "require", "dofile", "loadfile"}
RemovedMath == {"math.random", "math.randomseed"}
RedisModules == {"cjson", "struct", "cmsgpack", "bit"}
GlobalNames == RemovedGlobals \cup RemovedMath \cup RedisModules \cup {"pcall", "redis"}
RedisApi == {"call", "pcall", "log", "sha1hex", "error_reply", "status_reply", "setresp",
             "LOG_DEBUG", "LOG_VERBOSE", "LOG_NOTICE", "LOG_WARNING"}

SetAll(g, names, kind) == [n \in DOMAIN g |-> IF n \in names THEN kind ELSE g[n]]

\* luaL_newstate: no global is set.
luaL_newstate == [n \in GlobalNames |-> "nil"]

\* The base library brings dofile, loadfile and pcall, the math library random
\* and randomseed; io, os, debug, package and require are never opened.
luaopen_base(g) == SetAll(g, {"dofile", "loadfile", "pcall"}, "function")

luaopen_math(g) == SetAll(g, RemovedMath, "function")

disable_non_determinism(g) == SetAll(g, RemovedGlobals \cup RemovedMath, "nil")

load_redis_modules(g) == SetAll(g, RedisModules, "table")

open_allowed_libs(g) ==
  load_redis_modules(disable_non_determinism(luaopen_math(luaopen_base(g))))

register_redis_api(g) == SetAll(g, {"redis"}, "table")

\* The interpreter init and reset leave behind; lua_sethook arms the count hook.
NewInterpreter ==
  [globals |-> register_redis_api(open_allowed_libs(luaL_newstate)),
   redis |-> RedisApi,
   x |-> LNil,
   KEYS |-> LNil,
   ARGV |-> LNil,
   hookcount |-> FUEL_HOOK_STEP]

\* The address luaL_newstate returns: one no live interpreter has.
NewStateId(live) == CHOOSE i \in 1..(Cardinality(live) + 1) : i \notin live

\* A teardown that would leave the interpreter allocated (not what lua_close does).
LeakState(states, L) == states

lua_close(states, L) == [i \in (DOMAIN states) \ {L} |-> states[i]]

-----------------------------------------------------------------------------
(* KEYS/ARGV.  buf is the args buffer, len = args_len; offsets are size_t.  *)
(* maxread is the highest offset of buf the parser reads (-1: none), oob    *)
(* tells that it was handed bytes past offset len.                          *)

Max(a, b) == IF a > b THEN a ELSE b

ArrayOf(items) == LTab(LNil, LNil, items)

RECURSIVE ParseItems(_, _, _, _, _, _, _, _, _)
ParseItems(buf, len, count, keys_count, i, offset, keys, argv, maxread) ==
  IF ~U32Less(U32Of(i), count)
  THEN [rc |-> 0, KEYS |-> keys, ARGV |-> argv, maxread |-> maxread, oob |-> FALSE]
  ELSE IF offset + 4 > len
  THEN [rc |-> -1, KEYS |-> keys, ARGV |-> argv, maxread |-> maxread, oob |-> FALSE]
  ELSE LET item_len == read_u32_le(buf, offset)
           at == offset + 4
           end == U32AddCarry(U32Of(at), item_len)
           read == Max(maxread, offset + 3)
       IN  IF U32Less(U32Of(len), U32Add(U32Of(at), item_len))
           THEN [rc |-> -1, KEYS |-> keys, ARGV |-> argv, maxread |-> read,
                 oob |-> FALSE]
           ELSE IF end.carry > 0
           THEN \* offset + item_len wrapped: lua_pushlstring is handed item_len
                \* bytes, which reach past the end of the buffer
                [rc |-> -2, KEYS |-> keys, ARGV |-> argv, maxread |-> read,
                 oob |-> TRUE]
           ELSE LET n == item_len.lo
                    item == LStr(SubSeq(buf, at + 1, at + n))
                    read2 == IF n = 0 THEN read ELSE Max(read, at + n - 1)
                IN  IF i < keys_count
                    THEN ParseItems(buf, len, count, keys_count, i + 1, at + n,
                                    Append(keys, item), argv, read2)
                    ELSE ParseItems(buf, len, count, keys_count, i + 1, at + n,
                                    keys, Append(argv, item), read2)

\* A parser that would ignore keys_count and install every item in ARGV.
AllToArgv(buf, len, keys_count) ==
  IF len < 4
  THEN [rc |-> -1, KEYS |-> <<>>, ARGV |-> <<>>, maxread |-> -1, oob |-> FALSE]
  ELSE ParseItems(buf, len, read_u32_le(buf, 0), 0, 0, 4, <<>>, <<>>, 3)

\* rc 0: success, KEYS and ARGV are installed; rc -1: the parser's own failure;
\* rc -2: the parser read past the end of the buffer (undefined behaviour).
\* len, keys_count and the offsets within the buffer are below 2^16 in the model.
set_keys_argv(buf, len, keys_count) ==
  IF len < 4
  THEN [rc |-> -1, KEYS |-> <<>>, ARGV |-> <<>>, maxread |-> -1, oob |-> FALSE]
  ELSE IF U32Less(read_u32_le(buf, 0), U32Of(keys_count))
  THEN [rc |-> -1, KEYS |-> <<>>, ARGV |-> <<>>, maxread |-> 3, oob |-> FALSE]
  ELSE ParseItems(buf, len, read_u32_le(buf, 0), keys_count, 0, 4, <<>>, <<>>, 3)

-----------------------------------------------------------------------------
(* Scripts.  A script does `op` first, then dispatches `len` instructions,  *)
(* running them under its own pcall `catch` times over, and returns.        *)
(*   return    return val                  noreturn  return nothing         *)
(*   syntax    does not compile            error     error("boom")          *)
(*   setresp   return redis.setresp(val)   log       redis.log(level, msg)  *)
(*   setglobal x = val                     getglobal return x               *)
(*   clobber   io = {}; redis = nil        args      return {KEYS, ARGV}    *)
(*   call      return redis.call("ok")     pcall     return redis.pcall("ok") *)
(*   sha1hex   return redis.sha1hex("ok")                                     *)
(* For call, pcall and sha1hex, val is the PtrLen the host import answers.  *)

MSG_SYNTAX == Str(<<"u","n","e","x","p","e","c","t","e","d"," ","s","y","m","b","o","l">>)
MSG_BOOM == Str(<<"b","o","o","m">>)
STR_OK == Str(<<"o","k">>)
STR_TOOLONG == Str(<<"t","o","o","l","o","n","g">>)

\* argv: the arguments the script gives redis.call, redis.pcall or redis.sha1hex.
Script(op, val, len, catch) ==
  [op |-> op, val |-> val, len |-> len, catch |-> catch, argv |-> <<LStr(STR_OK)>>]

\* A script that calls the bridge function op with argv, the host answering reply.
CallScript(op, argv, reply) == [Script(op, reply, 0, 0) EXCEPT !.argv = argv]

NoScript == Script("none", LNil, 0, 0)

\* The observation of a completed export call.
Obs(op, rc) ==
  [op |-> op, rc |-> rc, reply |-> NoBuffer, path |-> "none", script |-> NoScript,
   args |-> <<>>, keys_count |-> 0, fails |-> {}, ran |-> FALSE, hostcalls |-> 0,
   maxread |-> -1, oob |-> FALSE, executed |-> 0, raised |-> FALSE, top |-> 0,
   val |-> LNil, hostfreed |-> 0, cursor |-> 0, request |-> <<>>, limits |-> <<>>,
   blk |-> 0,
   ev |-> <<>>]

NoCall ==
  [entry |-> "none", script |-> NoScript, args |-> <<>>, keys_count |-> 0,
   fails |-> {}, n |-> 0, left |-> 0, executed |-> 0, caught |-> 0, state |-> "none",
   err |-> <<>>, top |-> 0, val |-> LNil, hostcalls |-> 0, maxread |-> -1,
   oob |-> FALSE, hostfreed |-> 0, cursor |-> 0, request |-> <<>>]

NoHist == [stage |-> 0, script |-> NoScript, args |-> <<>>, keys_count |-> 0,
           first |-> NoBuffer, second |-> NoBuffer]

Init ==
  /\ g_state = NULL
  /\ g_fuel_remaining = DEFAULT_FUEL_LIMIT
  /\ g_fuel_limit = DEFAULT_FUEL_LIMIT
  /\ g_max_reply_bytes = 0
  /\ g_max_arg_bytes = 0
  /\ g_resp_version = RESP_DEFAULT
  /\ lua = <<>>
  /\ pc = "idle"
  /\ call = NoCall
  /\ last = Obs("none", 0)
  /\ hist = NoHist
  /\ heap = NoHeap

reset_fuel == g_fuel_remaining' = g_fuel_limit

\* An init that would put the three limits back to their defaults.
InitRestoresLimits(created) ==
  /\ pc = "idle"
  /\ LET closed == IF g_state # NULL THEN lua_close(lua, g_state) ELSE lua
         L == NewStateId(DOMAIN closed)
     IN  IF created
         THEN /\ g_state' = L
              /\ lua' = (L :> NewInterpreter) @@ closed
              /\ g_fuel_remaining' = DEFAULT_FUEL_LIMIT
              /\ last' = Obs("init", 0)
         ELSE /\ g_state' = NULL
              /\ lua' = closed
              /\ UNCHANGED g_fuel_remaining
              /\ last' = Obs("init", -1)
  /\ g_fuel_limit' = DEFAULT_FUEL_LIMIT
  /\ g_max_reply_bytes' = 0
  /\ g_max_arg_bytes' = 0
  /\ UNCHANGED <<g_resp_version, pc, call>>

\* init(): created tells whether luaL_newstate returns an interpreter.
init(created) ==
  /\ pc = "idle"
  /\ LET closed == IF g_state # NULL THEN lua_close(lua, g_state) ELSE lua
         L == NewStateId(DOMAIN closed)
     IN  IF created
         THEN /\ g_state' = L
              /\ lua' = (L :> NewInterpreter) @@ closed
              /\ reset_fuel
              /\ last' = Obs("init", 0)
         ELSE /\ g_state' = NULL
              /\ lua' = closed
              /\ UNCHANGED g_fuel_remaining
              /\ last' = Obs("init", -1)
  /\ UNCHANGED <<g_fuel_limit, g_max_reply_bytes, g_max_arg_bytes, g_resp_version,
                 pc, call>>

reset(created) ==
  /\ pc = "idle"
  /\ IF g_state = NULL
     THEN /\ last' = Obs("reset", -1)
          /\ UNCHANGED <<g_state, lua, g_fuel_remaining>>
     ELSE LET closed == lua_close(lua, g_state)
              L == NewStateId(DOMAIN closed)
          IN  IF created
              THEN /\ g_state' = L
                   /\ lua' = (L :> NewInterpreter) @@ closed
                   /\ reset_fuel
                   /\ last' = Obs("reset", 0)
              ELSE /\ g_state' = NULL
                   /\ lua' = closed
                   /\ UNCHANGED g_fuel_remaining
                   /\ last' = Obs("reset", -1)
  /\ UNCHANGED <<g_fuel_limit, g_max_reply_bytes, g_max_arg_bytes, g_resp_version,
                 pc, call>>

\* A set_limits that would also refill the fuel counter (the source leaves it).
SetLimitsAndRefill(max_fuel, max_reply_bytes, max_arg_bytes) ==
  /\ pc = "idle"
  /\ g_fuel_limit' = IF max_fuel > 0 THEN max_fuel ELSE g_fuel_limit
  /\ g_fuel_remaining' = g_fuel_limit'
  /\ g_max_reply_bytes' = max_reply_bytes
  /\ g_max_arg_bytes' = max_arg_bytes
  /\ last' = [Obs("set_limits", 0) EXCEPT
                !.limits = <<max_fuel, max_reply_bytes, max_arg_bytes>>]
  /\ UNCHANGED <<g_state, g_resp_version, lua, pc, call>>

set_limits(max_fuel, max_reply_bytes, max_arg_bytes) ==
  /\ pc = "idle"
  /\ g_fuel_limit' = IF max_fuel > 0 THEN max_fuel ELSE g_fuel_limit
  /\ g_max_reply_bytes' = max_reply_bytes
  /\ g_max_arg_bytes' = max_arg_bytes
  /\ last' = [Obs("set_limits", 0) EXCEPT
                !.limits = <<max_fuel, max_reply_bytes, max_arg_bytes>>]
  /\ UNCHANGED <<g_state, g_fuel_remaining, g_resp_version, lua, pc, call>>

-----------------------------------------------------------------------------
(* The bridge to the host.  A host reply is a PtrLen: ptr (0: no buffer),  *)
(* len as the host reports it, bytes the buffer's content.  Counts, lengths *)
(* and offsets stay below 2^16 in the model.                                *)

MSG_DECODE_FAILED == Str(<<"E","R","R"," ","r","e","p","l","y"," ","d","e","c","o","d","i","n","g"," ","f","a","i","l","e","d">>)
MSG_UNKNOWN_TYPE == Str(<<"E","R","R"," ","u","n","k","n","o","w","n"," ","r","e","p","l","y"," ","t","y","p","e">>)
MSG_NO_ARGS == Str(<<"E","R","R"," ","r","e","d","i","s",".","c","a","l","l"," ","r","e","q","u","i","r","e","s"," ","a","r","g","u","m","e","n","t","s">>)
MSG_BAD_ARG == Str(<<"E","R","R"," ","i","n","v","a","l","i","d"," ","a","r","g","u","m","e","n","t"," ","t","o"," ","r","e","d","i","s",".","c","a","l","l">>)
MSG_EMPTY_REPLY == Str(<<"E","R","R"," ","e","m","p","t","y"," ","r","e","p","l","y"," ","f","r","o","m"," ","h","o","s","t">>)
MSG_SHA1_FAILED == Str(<<"E","R","R"," ","s","h","a","1","h","e","x"," ","f","a","i","l","e","d">>)
MSG_SHA1_ARG == Str(<<"b","a","d"," ","a","r","g","u","m","e","n","t"," ","#","1"," ","t","o"," ","'","s","h","a","1","h","e","x","'"," ","(","s","t","r","i","n","g"," ","e","x","p","e","c","t","e","d",","," ","g","o","t"," ","n","i","l",")">>)

\* luaL_error from a bridge function the chunk calls: the message after the
\* position of the call.
luaL_error(msg) == CHUNK_WHERE \o msg

\* The int64_t stored low byte first at buf[at .. at+7]; the model's values lie
\* within (-2^31, 2^31), the upper four bytes being the sign.
read_i64_le(buf, at) ==
  LET low == buf[at + 1] + buf[at + 2] * 256 + buf[at + 3] * 65536
      top == buf[at + 4]
  IN  IF buf[at + 8] >= 128
      THEN -((255 - top) * 16777216 + (16777215 - low)) - 1
      ELSE top * 16777216 + low

\* A marshalling that would send booleans the other way round.
BoolsSwapped(v) ==
  CASE v.t \in {"string", "number"} -> [rc |-> 0, bytes |-> lua_tolstring(v)]
    [] v.t = "boolean" -> [rc |-> 0, bytes |-> IF v.b THEN <<48>> ELSE <<49>>]
    [] OTHER -> [rc |-> -1, bytes |-> <<>>]

\* The bytes a script argument is sent as: rc -1 for a type that cannot be sent.
arg_to_bytes(v) ==
  CASE v.t \in {"string", "number"} -> [rc |-> 0, bytes |-> lua_tolstring(v)]
    [] v.t = "boolean" -> [rc |-> 0, bytes |-> IF v.b THEN <<49>> ELSE <<48>>]
    [] OTHER -> [rc |-> -1, bytes |-> <<>>]

\* encode_args: the request frame of the arguments (the ArgBuffer's allocations
\* succeed).
RECURSIVE encode_args(_, _, _)
encode_args(argv, i, ab) ==
  IF i > Len(argv) THEN [rc |-> 0, ab |-> ab]
  ELSE LET a == arg_to_bytes(argv[i])
       IN  IF a.rc # 0 THEN [rc |-> -1, ab |-> ab]
           ELSE encode_args(argv, i + 1,
                            ab \o write_u32_le(U32Of(Len(a.bytes))) \o a.bytes)

push_status_table(data) == LTab(LStr(data), LNil, <<>>)

\* A table that would carry the bytes in the field ok (it is err in the source).
ErrorAsStatus(data) == LTab(LStr(data), LNil, <<>>)

push_error_table(data) == LTab(LNil, LStr(data), <<>>)

\* decode_reply: st "ok" with the value pushed, "raise" with the error value the
\* script error carries, or "ub" when a length that wrapped in 32 bits lets the
\* decoder read past the buffer; offset is the cursor afterwards.
RECURSIVE decode_reply(_, _, _, _)
RECURSIVE DecodeItems(_, _, _, _, _, _)

\* The loop of the REPLY_ARRAY case over the elements i..count of the table.
DecodeItems(buf, len, offset, raise_on_error, left, items) ==
  IF left = 0 THEN [st |-> "ok", val |-> ArrayOf(items), err |-> <<>>, offset |-> offset]
  ELSE LET d == decode_reply(buf, len, offset, raise_on_error)
       IN  IF d.st # "ok" THEN d
           ELSE DecodeItems(buf, len, d.offset, raise_on_error, left - 1,
                            Append(items, d.val))

decode_reply(buf, len, offset, raise_on_error) ==
  LET failed == [st |-> "raise", val |-> LNil, err |-> luaL_error(MSG_DECODE_FAILED),
                 offset |-> offset]
  IN  IF offset + 5 > len THEN failed
      ELSE
      LET type == buf[offset + 1]
          count_or_len == read_u32_le(buf, offset + 1)
          at == offset + 5
          end == U32AddCarry(U32Of(at), count_or_len)
          short == U32Less(U32Of(len), U32Add(U32Of(at), count_or_len))
          n == count_or_len.lo
          data == SubSeq(buf, at + 1, at + n)
          past == [st |-> "ub", val |-> LNil, err |-> <<>>, offset |-> at]
          Ok(v, o) == [st |-> "ok", val |-> v, err |-> <<>>, offset |-> o]
      IN  CASE type = REPLY_NULL -> Ok(LNil, at)
            [] type = REPLY_INT ->
                 IF at + 8 > len THEN [failed EXCEPT !.offset = at]
                 ELSE Ok(LNum(read_i64_le(buf, at), 0), at + 8)
            [] type = REPLY_BULK ->
                 IF short THEN [failed EXCEPT !.offset = at]
                 ELSE IF end.carry > 0 THEN past
                 ELSE Ok(LStr(data), at + n)
            [] type = REPLY_STATUS ->
                 IF short THEN [failed EXCEPT !.offset = at]
                 ELSE IF end.carry > 0 THEN past
                 ELSE Ok(push_status_table(data), at + n)
            [] type = REPLY_ERROR ->
                 IF short THEN [failed EXCEPT !.offset = at]
                 ELSE IF end.carry > 0 THEN past
                 ELSE IF raise_on_error
                 THEN [st |-> "raise", val |-> LNil, err |-> data, offset |-> at + n]
                 ELSE Ok(push_error_table(data), at + n)
            [] type = REPLY_ARRAY ->
                 IF count_or_len.hi > 0
                 THEN \* more elements than any buffer of the model holds
                      [failed EXCEPT !.offset = at]
                 ELSE DecodeItems(buf, len, at, raise_on_error, n, <<>>)
            [] OTHER ->
                 [st |-> "raise", val |-> LNil, err |-> luaL_error(MSG_UNKNOWN_TYPE),
                  offset |-> at]

\* redis.call (raise_on_error) and redis.pcall on the arguments argv, the host
\* import answering reply.  hostcalls: the import was invoked; request: the frame
\* it was given; freed: how often free_mem(reply.ptr) was called.
redis_call_common(argv, reply, raise_on_error) ==
  LET none == [st |-> "raise", val |-> LNil, err |-> <<>>, hostcalls |-> 0,
               request |-> <<>>, freed |-> 0, offset |-> 0]
      e == encode_args(argv, 1, write_u32_le(U32Of(Len(argv))))
      called == [none EXCEPT !.hostcalls = 1, !.request = e.ab]
      d == decode_reply(reply.bytes, reply.len, 0, raise_on_error)
  IN  IF Len(argv) = 0 THEN [none EXCEPT !.err = luaL_error(MSG_NO_ARGS)]
      ELSE IF e.rc # 0 THEN [none EXCEPT !.err = luaL_error(MSG_BAD_ARG)]
      ELSE IF reply.ptr = 0 \/ reply.len = 0
      THEN [called EXCEPT !.err = luaL_error(MSG_EMPTY_REPLY)]
      ELSE IF d.st = "ok"
      THEN [called EXCEPT !.st = "ok", !.val = d.val, !.freed = 1, !.offset = d.offset]
      ELSE \* the error unwinds decode_reply and redis_call_common at once
           [called EXCEPT !.st = d.st, !.err = d.err, !.offset = d.offset]

\* redis.sha1hex on arg, the host import answering out.
l_redis_sha1hex(arg, out) ==
  LET none == [st |-> "raise", val |-> LNil, err |-> <<>>, hostcalls |-> 0,
               request |-> <<>>, freed |-> 0, offset |-> 0]
      called == [none EXCEPT !.hostcalls = 1, !.request = lua_tolstring(arg)]
  IN  IF ~lua_isstring(arg) THEN [none EXCEPT !.err = luaL_error(MSG_SHA1_ARG)]
      ELSE IF out.ptr = 0 \/ out.len = 0
      THEN [called EXCEPT !.err = luaL_error(MSG_SHA1_FAILED)]
      ELSE [called EXCEPT !.st = "ok", !.val = LStr(SubSeq(out.bytes, 1, out.len)),
                          !.freed = 1]

-----------------------------------------------------------------------------
(* Running a script.                                                        *)

\* l_redis_setresp: stores (uint32_t) of its argument (the model's arguments are
\* small and not negative), returns the previous value.
l_redis_setresp(resp, arg) == [resp |-> arg.ip, val |-> LNum(resp, 0)]

\* What the script's op does when the chunk starts: the interpreter L and
\* g_resp_version after it, whether an error is raised, the values returned at the
\* end, the host imports invoked.
Effect(script, L, resp) ==
  LET base == [L |-> L, resp |-> resp, state |-> "run", err |-> <<>>, top |-> 0,
               val |-> LNil, hostcalls |-> 0, hostfreed |-> 0, cursor |-> 0,
               request |-> <<>>]
      Bridge(r) == [base EXCEPT !.state = CASE r.st = "ok" -> "run"
                                            [] r.st = "raise" -> "raised"
                                            [] OTHER -> "aborted",
                                !.err = r.err, !.top = IF r.st = "ok" THEN 1 ELSE 0,
                                !.val = r.val, !.hostcalls = r.hostcalls,
                                !.hostfreed = r.freed, !.cursor = r.offset,
                                !.request = r.request]
  IN  CASE script.op = "return" -> [base EXCEPT !.top = 1, !.val = script.val]
        [] script.op = "noreturn" -> base
        [] script.op = "error" ->
             [base EXCEPT !.state = "raised", !.err = CHUNK_WHERE \o MSG_BOOM]
        [] script.op = "setresp" ->
             [base EXCEPT !.resp = l_redis_setresp(resp, script.val).resp,
                          !.top = 1,
                          !.val = l_redis_setresp(resp, script.val).val]
        [] script.op = "log" -> [base EXCEPT !.hostcalls = 1]
        [] script.op = "setglobal" -> [base EXCEPT !.L.x = script.val]
        [] script.op = "getglobal" -> [base EXCEPT !.top = 1, !.val = L.x]
        [] script.op = "clobber" ->
             [base EXCEPT !.L.globals = SetAll(SetAll(L.globals, {"io"}, "table"),
                                               {"redis"}, "nil"),
                          !.L.redis = {}]
        [] script.op = "args" ->
             [base EXCEPT !.top = 1, !.val = ArrayOf(<<L.KEYS, L.ARGV>>)]
        [] script.op = "stash" ->   \* x = ARGV; KEYS = {'ok'}; ARGV = KEYS
             [base EXCEPT !.L.x = L.ARGV, !.L.KEYS = ArrayOf(<<LStr(STR_OK)>>),
                          !.L.ARGV = ArrayOf(<<LStr(STR_OK)>>)]
        [] script.op = "call" ->
             Bridge(redis_call_common(script.argv, script.val, TRUE))
        [] script.op = "pcall" ->
             Bridge(redis_call_common(script.argv, script.val, FALSE))
        [] script.op = "sha1hex" -> Bridge(l_redis_sha1hex(script.argv[1], script.val))

\* The export returns r.out to the host.
Done(c, r, path) ==
  /\ pc' = "idle"
  /\ call' = NoCall
  /\ last' = [op |-> c.entry, rc |-> 0, reply |-> r.out, path |-> path,
              blk |-> r.blk, ev |-> r.ev,
              script |-> c.script, args |-> c.args, keys_count |-> c.keys_count,
              fails |-> c.fails, ran |-> c.state # "none", hostcalls |-> c.hostcalls,
              maxread |-> c.maxread, oob |-> c.oob, executed |-> c.executed,
              raised |-> c.state = "raised", top |-> c.top, val |-> c.val,
              hostfreed |-> c.hostfreed, cursor |-> c.cursor,
              request |-> c.request, limits |-> <<>>]

\* An entry point that would refill the fuel before it looks for the interpreter
\* (the source tests g_state first).
RefillThenRefuse(c) ==
  /\ Done(c, reply_error(CLit(MSG_NOT_INIT), LEN_NOT_INIT, 0, c.fails, 0),
          "not_initialized")
  /\ reset_fuel
  /\ UNCHANGED <<g_state, g_fuel_limit, g_max_reply_bytes, g_max_arg_bytes,
                 g_resp_version, lua>>

\* if (!g_state) return reply_error("ERR Lua VM not initialized", 26);
NotInitialized(c) ==
  /\ Done(c, reply_error(CLit(MSG_NOT_INIT), LEN_NOT_INIT, 0, c.fails, 0),
          "not_initialized")
  /\ UNCHANGED guest

\* luaL_loadbuffer and the start of lua_pcall, with L1 the interpreter once KEYS
\* and ARGV are set.
LoadAndRun(c, L1) ==
  IF c.script.op = "syntax"
  THEN /\ Done(c, reply_error(CHUNK_WHERE \o MSG_SYNTAX,
                              Len(CHUNK_WHERE \o MSG_SYNTAX), 0, c.fails, 0),
               "load_error")
       /\ lua' = [lua EXCEPT ![g_state] = L1]
       /\ UNCHANGED g_resp_version
  ELSE LET e == Effect(c.script, L1, g_resp_version)
       IN  /\ pc' = IF e.state = "aborted" THEN "aborted" ELSE "running"
           /\ call' = [c EXCEPT !.state = e.state, !.err = e.err, !.top = e.top,
                                !.val = e.val, !.hostcalls = e.hostcalls,
                                !.hostfreed = e.hostfreed, !.cursor = e.cursor,
                                !.request = e.request,
                                !.left = c.script.len]
           /\ lua' = [lua EXCEPT ![g_state] = e.L]
           /\ g_resp_version' = e.resp
           /\ last' = Obs("none", 0)

\* An eval that would leave KEYS and ARGV as the interpreter holds them.
EvalKeepsArgs(script, fails) ==
  /\ pc = "idle"
  /\ LET c == [NoCall EXCEPT !.entry = "eval", !.script = script, !.fails = fails]
     IN  IF g_state = NULL THEN NotInitialized(c)
         ELSE /\ reset_fuel
              /\ LoadAndRun(c, lua[g_state])
              /\ UNCHANGED <<g_state, g_fuel_limit, g_max_reply_bytes,
                             g_max_arg_bytes>>

eval(script, fails) ==
  /\ pc = "idle"
  /\ LET c == [NoCall EXCEPT !.entry = "eval", !.script = script, !.fails = fails]
     IN  IF g_state = NULL THEN NotInitialized(c)
         ELSE /\ reset_fuel
              /\ LoadAndRun(c, [lua[g_state] EXCEPT !.KEYS = ArrayOf(<<>>),
                                                    !.ARGV = ArrayOf(<<>>)])
              /\ UNCHANGED <<g_state, g_fuel_limit, g_max_reply_bytes,
                             g_max_arg_bytes>>

ArgsOverLimit(args_len) == g_max_arg_bytes > 0 /\ args_len > g_max_arg_bytes

eval_with_args(script, args, keys_count, fails, junk) ==
  /\ pc = "idle"
  /\ LET c == [NoCall EXCEPT !.entry = "eval_with_args", !.script = script,
                             !.args = args, !.keys_count = keys_count,
                             !.fails = fails]
         p == set_keys_argv(args, Len(args), keys_count)
         cp == [c EXCEPT !.maxread = p.maxread, !.oob = p.oob]
     IN  IF g_state = NULL THEN NotInitialized(c)
         ELSE /\ reset_fuel
              /\ UNCHANGED <<g_state, g_fuel_limit, g_max_reply_bytes,
                             g_max_arg_bytes>>
              /\ IF ArgsOverLimit(Len(args))
                 THEN /\ Done(c, reply_error(CLit(MSG_ARG_LIMIT), LEN_ARG_LIMIT, junk,
                                             fails, 0), "arg_limit")
                      /\ UNCHANGED <<lua, g_resp_version>>
                 ELSE IF p.rc = -1
                 THEN /\ Done(cp, reply_error(CLit(MSG_INVALID_ARGS), LEN_INVALID_ARGS,
                                              junk, fails, 0), "invalid_args")
                      /\ UNCHANGED <<lua, g_resp_version>>
                 ELSE IF p.rc = -2
                 THEN \* the read past the buffer traps, or the interpreter panics
                      \* on the string it cannot hold: the call never returns
                      /\ pc' = "aborted"
                      /\ call' = cp
                      /\ last' = Obs("none", 0)
                      /\ UNCHANGED <<lua, g_resp_version>>
                 ELSE LoadAndRun(cp, [lua[g_state] EXCEPT !.KEYS = ArrayOf(p.KEYS),
                                                          !.ARGV = ArrayOf(p.ARGV)])

\* The script's own pcall (base library) catches the error the hook raises.
ScriptCatches(c) == c.caught < c.script.catch

\* The count hook, every FUEL_HOOK_STEP instructions the interpreter dispatches.
fuel_hook ==
  /\ pc = "running"
  /\ call.state = "run"
  /\ call.left >= lua[g_state].hookcount
  /\ LET fuel == g_fuel_remaining - FUEL_HOOK_STEP
         c == [call EXCEPT !.left = call.left - lua[g_state].hookcount,
                           !.executed = call.executed + lua[g_state].hookcount]
     IN  /\ g_fuel_remaining' = fuel
         /\ IF fuel > 0 THEN call' = c
            ELSE IF ScriptCatches(c) THEN call' = [c EXCEPT !.caught = c.caught + 1]
            ELSE \* the message carries the position of the calling function when
                 \* the hook fires in a function the chunk called, and none when it
                 \* fires in the chunk itself
                 \E where \in {<<>>, CHUNK_WHERE} :
                   call' = [c EXCEPT !.state = "raised", !.err = where \o MSG_FUEL]
  /\ lua' = [lua EXCEPT ![g_state].hookcount = FUEL_HOOK_STEP]
  /\ UNCHANGED <<g_state, g_fuel_limit, g_max_reply_bytes, g_max_arg_bytes,
                 g_resp_version, pc, last>>

\* Two other readings of the reply cap (the source compares the whole frame with >).
AtOrOverLimit(len) == g_max_reply_bytes > 0 /\ len >= g_max_reply_bytes
PayloadOverLimit(len) == g_max_reply_bytes > 0 /\ len - 5 > g_max_reply_bytes

\* if (g_max_reply_bytes > 0 && rb.len > g_max_reply_bytes)
ReplyOverLimit(len) == g_max_reply_bytes > 0 /\ len > g_max_reply_bytes

\* eval and eval_with_args after lua_pcall has returned: the reply and the path
\* that builds it.
BuildReply(c) ==
  LET e == encode_lua_value(c.val, rb_init(0), c.fails)
      freed == Append(e.rb.ev, Free(e.rb.blk))
      f == ThenFree(rb_finalize(e.rb, c.fails), e.rb)
  IN  IF c.state = "raised"
      THEN [r |-> reply_error(c.err, Len(c.err), 0, c.fails, 0),
            path |-> "exec_error"]
      ELSE IF c.top = 0
      THEN [r |-> reply_status(CLit(MSG_OK), LEN_OK, 0, c.fails, 0),
            path |-> "ok"]
      ELSE IF e.rc # 0
      THEN [r |-> After(freed, reply_error(CLit(MSG_UNSUPPORTED), LEN_UNSUPPORTED,
                                           0, c.fails, e.rb.n)),
            path |-> "unsupported"]
      ELSE IF ReplyOverLimit(Len(e.rb.data))
      THEN [r |-> After(freed, reply_error(CLit(MSG_REPLY_LIMIT), LEN_REPLY_LIMIT,
                                           0, c.fails, e.rb.n)),
            path |-> "reply_limit"]
      ELSE IF f.out.ptr = 0
      THEN [r |-> After(f.ev, reply_error(CLit(MSG_ENCODING_FAILED),
                                          LEN_ENCODING_FAILED, 0, c.fails, f.n)),
            path |-> "encoding_failed"]
      ELSE [r |-> f, path |-> "value"]

\* The script ends (it returns, or the raised error reaches lua_pcall) and the
\* entry point builds its reply.
eval_return ==
  /\ pc = "running"
  /\ call.state = "raised" \/ call.left < lua[g_state].hookcount
  /\ LET ran == IF call.state = "raised" THEN 0 ELSE call.left
         c == [call EXCEPT !.left = 0, !.executed = call.executed + ran]
     IN  /\ Done(c, BuildReply(c).r, BuildReply(c).path)
         /\ lua' = [lua EXCEPT ![g_state].hookcount = lua[g_state].hookcount - ran]
  /\ UNCHANGED <<g_state, g_fuel_remaining, g_fuel_limit, g_max_reply_bytes,
                 g_max_arg_bytes, g_resp_version>>

\* free_mem(ptr): the host gives a block back.
free_mem(ptr) ==
  /\ pc = "idle"
  /\ heap' = [free(heap, ptr) EXCEPT !.after = last.op,
                                     !.reply = IF @ = ptr THEN 0 ELSE @]
  /\ UNCHANGED <<guest, pc, call, last, hist>>

\* heap follows the allocator through a call of eval or eval_with_args ...
TrackCall == heap' = IF pc' = "idle" THEN HeapAfterCall(heap, last') ELSE heap

\* ... and through init and reset.
TrackLife ==
  heap' = HeapAfterLife(heap, g_state # NULL, g_state' # NULL /\ last'.rc = 0)

-----------------------------------------------------------------------------
(* Inputs.                                                                  *)

MaxHalfSteps == 4
MaxAllocFail == 2

\* Instruction counts: multiples of half a hook step.
ScriptLens == {k * (FUEL_HOOK_STEP \div 2) : k \in 1..MaxHalfSteps}

Burners == { Script("return", LNum(42, 0), n, k) : n \in ScriptLens, k \in 0..1 }

Values ==
  { LNil, LNum(42, 0), LNum(1, 5), LBool(TRUE), LBool(FALSE), LStr(STR_OK),
    LStr(STR_TOOLONG), LFun,
    LTab(LStr(STR_OK), LNil, <<>>), LTab(LNil, LStr(MSG_BOOM), <<>>),
    ArrayOf(<<LNum(1, 0), LStr(STR_OK)>>), ArrayOf(<<LNum(1, 0), LFun>>),
    ArrayOf(<<LNil, LNum(1, 0)>>), ArrayOf(<<LNum(1, 0), LNil>>) }

Returners == { Script("return", v, 0, 0) : v \in Values }

Op(op) == Script(op, LNil, 0, 0)

SetResp == Script("setresp", LNum(3, 0), 0, 0)
SetGlobal == Script("setglobal", LNum(7, 0), 0, 0)
OneBurner == Script("return", LNum(42, 0), FUEL_HOOK_STEP, 0)

\* A request frame: the count, then each item's declared length and its bytes.
RECURSIVE FrameItems(_)
FrameItems(items) ==
  IF items = <<>> THEN <<>>
  ELSE write_u32_le(Head(items).len) \o Head(items).data \o FrameItems(Tail(items))

Frame(count, items) == write_u32_le(U32Of(count)) \o FrameItems(items)

Item(bytes) == [len |-> U32Of(Len(bytes)), data |-> bytes]

\* The frame of runtime_eval_args_smoke.c.
SmokeFrame == Frame(2, <<Item(<<0, 1, 2>>), Item(<<3, 0, 4>>)>>)

ArgFrames ==
  { <<>>,                                        \* no bytes at all
    <<1, 0, 0>>,                                 \* shorter than the count
    Frame(0, <<>>),
    Frame(1, <<Item(<<97>>)>>),
    SmokeFrame,
    Frame(2, <<Item(<<97>>)>>),                  \* fewer items than counted
    Frame(1, <<>>) \o <<1, 0>>,                  \* an item's length field cut
    Frame(1, <<[len |-> U32Of(3), data |-> <<97>>]>>),  \* an item's bytes cut
    Frame(1, <<[len |-> [hi |-> HALF - 1, lo |-> HALF - 1], data |-> <<97>>]>>),
    Frame(1, <<[len |-> [hi |-> HALF - 1, lo |-> HALF - 8], data |-> <<>>]>>) }

\* The frames a host mock answers with.
FNull == <<REPLY_NULL, 0, 0, 0, 0>>
FInt(n) == <<REPLY_INT>> \o write_u32_le(U32Of(8)) \o write_i64_le(n)
FText(tag, bytes) == <<tag>> \o write_u32_le(U32Of(Len(bytes))) \o bytes

RECURSIVE Concat(_)
Concat(seqs) == IF seqs = <<>> THEN <<>> ELSE Head(seqs) \o Concat(Tail(seqs))

FArray(children) ==
  <<REPLY_ARRAY>> \o write_u32_le(U32Of(Len(children))) \o Concat(children)

WellFormedReplies ==
  { FNull, FInt(42), FInt(-2), FText(REPLY_BULK, STR_OK), FText(REPLY_BULK, <<>>),
    FText(REPLY_STATUS, MSG_OK), FText(REPLY_ERROR, MSG_BOOM),
    FArray(<<>>), FArray(<<FInt(1), FText(REPLY_BULK, STR_OK)>>),
    FArray(<<FNull>>), FArray(<<FNull, FInt(1)>>), FArray(<<FInt(1), FNull>>),
    FArray(<<FText(REPLY_ERROR, MSG_BOOM)>>),
    FArray(<<FArray(<<FInt(1)>>), FText(REPLY_STATUS, MSG_OK)>>) }

MalformedReplies ==
  { <<REPLY_BULK, 0, 0>>,                                 \* the header cut
    <<REPLY_BULK, 2, 0, 0, 0, 111>>,                      \* the payload cut
    <<REPLY_INT, 8, 0, 0, 0, 1, 0, 0>>,
    <<REPLY_ARRAY, 2, 0, 0, 0>> \o FInt(1),               \* a child missing
    <<9, 0, 0, 0, 0>>,                                    \* no such tag
    FArray(<<FInt(1), <<9, 0, 0, 0, 0>>>>),
    FArray(<<FText(REPLY_BULK, STR_OK), <<REPLY_STATUS, 3, 0, 0, 0, 79>>>>),
    <<REPLY_BULK, 255, 255, 255, 255>>,                   \* a length near 2^32
    FArray(<<<<REPLY_STATUS, 252, 255, 255, 255, 79>>>>) }

\* The buffer the host allocated with alloc and filled.
HostBuffer(bytes) == [ptr |-> 1, len |-> Len(bytes), bytes |-> bytes]

EmptyBuffer == [ptr |-> 1, len |-> 0, bytes |-> <<>>]

HostReplies ==
  { HostBuffer(f) : f \in WellFormedReplies \cup MalformedReplies }
    \cup {NoBuffer, EmptyBuffer}

-----------------------------------------------------------------------------
(* The history SpecDet keeps: stage 1 after a successful reset, 2 once the  *)
(* eval_with_args that follows it has returned `first`, 3 after the next    *)
(* successful reset, 4 once the same eval_with_args has returned `second`.  *)

SameInput(h, o) ==
  h.script = o.script /\ h.args = o.args /\ h.keys_count = o.keys_count

HistAfter(h, o) ==
  CASE o.op = "reset" /\ o.rc = 0 ->
         IF h.stage = 2 THEN [h EXCEPT !.stage = 3]
         ELSE IF h.stage = 4 THEN [h EXCEPT !.stage = 3, !.first = h.second]
         ELSE [NoHist EXCEPT !.stage = 1]
    [] o.op = "eval_with_args" /\ h.stage = 3 /\ SameInput(h, o) ->
         [h EXCEPT !.stage = 4, !.second = o.reply]
    [] o.op = "eval_with_args" /\ h.stage \in {1, 3} /\ ~(h.stage = 3 /\ SameInput(h, o)) ->
         [stage |-> 2, script |-> o.script, args |-> o.args,
          keys_count |-> o.keys_count, first |-> o.reply, second |-> NoBuffer]
    [] OTHER -> NoHist

\* hist follows the calls that return; it is untouched while a script runs.
Record == hist' = IF pc' = "idle" THEN HistAfter(hist, last') ELSE hist

-----------------------------------------------------------------------------
(* Specifications.  Each draws the inputs of the export calls from the sets *)
(* its claims are about.                                                    *)

LimitsOff == set_limits(0, 0, 0)

\* The lifecycle, with scripts that write globals and call the bridge.
LifeScripts ==
  { Op("noreturn"), Op("log"), Op("getglobal"), Op("clobber"), Op("error"),
    Op("syntax"), SetGlobal, SetResp, OneBurner }

Next ==
  \/ \E created \in BOOLEAN : init(created) /\ UNCHANGED <<hist, heap>>
  \/ \E created \in BOOLEAN : reset(created) /\ UNCHANGED <<hist, heap>>
  \/ \E f \in {0, 1500} : set_limits(f, 0, 0) /\ UNCHANGED <<hist, heap>>
  \/ \E s \in LifeScripts : eval(s, {}) /\ UNCHANGED <<hist, heap>>
  \/ \E s \in LifeScripts : eval_with_args(s, SmokeFrame, 1, {}, 0) /\ UNCHANGED <<hist, heap>>
  \/ fuel_hook /\ UNCHANGED <<hist, heap>>
  \/ eval_return /\ UNCHANGED <<hist, heap>>

Spec == Init /\ [][Next]_vars

\* Fuel: limits below, at and between the multiples of the hook step.
FuelChoices == {0, 1, 1500, 2000}
FuelScripts == Burners \cup {Op("noreturn")}

NextFuel ==
  \/ \E created \in BOOLEAN : init(created) /\ UNCHANGED <<hist, heap>>
  \/ \E created \in BOOLEAN : reset(created) /\ UNCHANGED <<hist, heap>>
  \/ \E f \in FuelChoices : set_limits(f, 0, 0) /\ UNCHANGED <<hist, heap>>
  \/ \E s \in FuelScripts : eval(s, {}) /\ UNCHANGED <<hist, heap>>
  \/ \E s \in FuelScripts : eval_with_args(s, SmokeFrame, 1, {}, 0) /\ UNCHANGED <<hist, heap>>
  \/ fuel_hook /\ UNCHANGED <<hist, heap>>
  \/ eval_return /\ UNCHANGED <<hist, heap>>

SpecFuel == Init /\ [][NextFuel]_vars

\* Determinism across reset: the allocator and the host are fixed.
DetScripts ==
  { Op("noreturn"), Op("getglobal"), Op("args"), SetGlobal, SetResp, OneBurner }
DetFrames == { SmokeFrame, Frame(1, <<Item(<<97>>)>>) }

NextDet ==
  \/ \E created \in BOOLEAN : init(created) /\ Record /\ UNCHANGED heap
  \/ \E created \in BOOLEAN : reset(created) /\ Record /\ UNCHANGED heap
  \/ LimitsOff /\ Record /\ UNCHANGED heap
  \/ \E s \in DetScripts : eval(s, {}) /\ Record /\ UNCHANGED heap
  \/ \E s \in DetScripts, args \in DetFrames : eval_with_args(s, args, 1, {}, 0) /\ Record /\ UNCHANGED heap
  \/ fuel_hook /\ Record /\ UNCHANGED heap
  \/ eval_return /\ Record /\ UNCHANGED heap

SpecDet == Init /\ [][NextDet]_vars

\* The reply cap, with every returned value and a failing allocator.
ReplyCaps == {0, 3, 12}
FailChoices == SUBSET (1..MaxAllocFail)
ReplyScripts ==
  Returners \cup { Op("noreturn"), Op("error"), Op("syntax"), OneBurner }

NextReply ==
  \/ \E created \in BOOLEAN : init(created) /\ UNCHANGED <<hist, heap>>
  \/ \E created \in BOOLEAN : reset(created) /\ UNCHANGED <<hist, heap>>
  \/ \E r \in ReplyCaps : set_limits(0, r, 0) /\ UNCHANGED <<hist, heap>>
  \/ \E s \in ReplyScripts, fails \in FailChoices : eval(s, fails) /\ UNCHANGED <<hist, heap>>
  \/ \E s \in ReplyScripts, fails \in FailChoices :
       eval_with_args(s, SmokeFrame, 1, fails, 0) /\ UNCHANGED <<hist, heap>>
  \/ fuel_hook /\ UNCHANGED <<hist, heap>>
  \/ eval_return /\ UNCHANGED <<hist, heap>>

SpecReply == Init /\ [][NextReply]_vars

\* KEYS/ARGV frames, well formed and not, with and without the argument cap.
KeyCounts == 0..2
JunkBytes == {0, 37}
ArgCaps == {0, 8}
ArgScripts == { Op("noreturn"), Op("args"), OneBurner }

NextArgs ==
  \/ \E created \in BOOLEAN : init(created) /\ UNCHANGED <<hist, heap>>
  \/ \E created \in BOOLEAN : reset(created) /\ UNCHANGED <<hist, heap>>
  \/ \E a \in ArgCaps : set_limits(0, 0, a) /\ UNCHANGED <<hist, heap>>
  \/ \E s \in ArgScripts : eval(s, {}) /\ UNCHANGED <<hist, heap>>
  \/ \E s \in ArgScripts, args \in ArgFrames, k \in KeyCounts, junk \in JunkBytes :
       eval_with_args(s, args, k, {}, junk) /\ UNCHANGED <<hist, heap>>
  \/ fuel_hook /\ UNCHANGED <<hist, heap>>
  \/ eval_return /\ UNCHANGED <<hist, heap>>

SpecArgs == Init /\ [][NextArgs]_vars

\* The bridge: every host reply to redis.call and redis.pcall, and redis.sha1hex.
HostScripts ==
  { Script(op, h, 0, 0) : op \in {"call", "pcall"}, h \in HostReplies }
    \cup { Script("sha1hex", h, 0, 0) :
             h \in {NoBuffer, EmptyBuffer, HostBuffer(STR_OK)} }
    \cup { OneBurner }

NextHost ==
  \/ \E created \in BOOLEAN : init(created) /\ UNCHANGED <<hist, heap>>
  \/ \E created \in BOOLEAN : reset(created) /\ UNCHANGED <<hist, heap>>
  \/ LimitsOff /\ UNCHANGED <<hist, heap>>
  \/ \E s \in HostScripts : eval(s, {}) /\ UNCHANGED <<hist, heap>>
  \/ \E s \in HostScripts : eval_with_args(s, SmokeFrame, 1, {}, 0) /\ UNCHANGED <<hist, heap>>
  \/ fuel_hook /\ UNCHANGED <<hist, heap>>
  \/ eval_return /\ UNCHANGED <<hist, heap>>

SpecHost == Init /\ [][NextHost]_vars

\* The three limits together.
LimitScripts == { Op("noreturn"), OneBurner, Script("return", LStr(STR_TOOLONG), 0, 0) }

NextLimits ==
  \/ \E created \in BOOLEAN : init(created) /\ UNCHANGED <<hist, heap>>
  \/ \E created \in BOOLEAN : reset(created) /\ UNCHANGED <<hist, heap>>
  \/ \E f \in {0, 1500, 2000}, r \in {0, 12}, a \in ArgCaps :
       set_limits(f, r, a) /\ UNCHANGED <<hist, heap>>
  \/ \E s \in LimitScripts : eval(s, {}) /\ UNCHANGED <<hist, heap>>
  \/ \E s \in LimitScripts : eval_with_args(s, SmokeFrame, 1, {}, 0) /\ UNCHANGED <<hist, heap>>
  \/ fuel_hook /\ UNCHANGED <<hist, heap>>
  \/ eval_return /\ UNCHANGED <<hist, heap>>

SpecLimits == Init /\ [][NextLimits]_vars

\* Replies and the heap: every reply path, a failing allocator, and a host that
\* frees the replies it holds when it likes.
HeapScripts ==
  { Op("noreturn"), Op("error"),
    Script("return", LStr(STR_TOOLONG), 0, 0),
    Script("return", ArrayOf(<<LNum(1, 0), LFun>>), 0, 0) }

Room == Cardinality(FreeAddrs(heap)) >= 3

NextHeap ==
  \/ \E created \in BOOLEAN : init(created) /\ TrackLife /\ UNCHANGED hist
  \/ \E created \in BOOLEAN : reset(created) /\ TrackLife /\ UNCHANGED hist
  \/ \E r \in {0, 12} : set_limits(0, r, 0) /\ UNCHANGED <<hist, heap>>
  \/ \E s \in HeapScripts, fails \in FailChoices :
       Room /\ eval(s, fails) /\ TrackCall /\ UNCHANGED hist
  \/ \E s \in {Op("syntax"), OneBurner}, fails \in FailChoices :
       Room /\ eval_with_args(s, SmokeFrame, 1, fails, 0) /\ TrackCall
            /\ UNCHANGED hist
  \/ fuel_hook /\ UNCHANGED <<hist, heap>>
  \/ eval_return /\ TrackCall /\ UNCHANGED hist
  \/ \E ptr \in Held(heap) : free_mem(ptr)

SpecHeap == Init /\ [][NextHeap]_vars

\* Returned tables: ok and err fields of every type beside every array part.
TableValues ==
  { LTab(LStr(STR_OK), LStr(MSG_BOOM), <<LNum(1, 0)>>),
    LTab(LNum(5, 0), LNil, <<>>),
    LTab(LNil, LNum(1, 5), <<LStr(STR_OK)>>),
    LTab(LBool(TRUE), LStr(MSG_BOOM), <<>>),
    LTab(LFun, LTab(LNil, LNil, <<>>), <<LNum(1, 0), LStr(STR_OK)>>),
    ArrayOf(<<>>),
    ArrayOf(<<LBool(FALSE), LNum(1, 5), ArrayOf(<<LNum(-2, 0)>>)>>),
    ArrayOf(<<LTab(LStr(STR_OK), LNil, <<>>), LTab(LNil, LStr(MSG_BOOM), <<>>)>>),
    ArrayOf(<<LNum(1, 0), ArrayOf(<<LFun>>)>>),
    ArrayOf(<<LFun, LNum(1, 0)>>) }

TableScripts == { Script("return", v, 0, 0) : v \in TableValues } \cup { OneBurner }

NextTable ==
  \/ \E created \in BOOLEAN : init(created) /\ UNCHANGED <<hist, heap>>
  \/ \E created \in BOOLEAN : reset(created) /\ UNCHANGED <<hist, heap>>
  \/ \E r \in {0, 3} : set_limits(0, r, 0) /\ UNCHANGED <<hist, heap>>
  \/ \E s \in TableScripts : eval(s, {}) /\ UNCHANGED <<hist, heap>>
  \/ \E s \in TableScripts :
       eval_with_args(s, SmokeFrame, 1, {}, 0) /\ UNCHANGED <<hist, heap>>
  \/ fuel_hook /\ UNCHANGED <<hist, heap>>
  \/ eval_return /\ UNCHANGED <<hist, heap>>

SpecTable == Init /\ [][NextTable]_vars

\* Marshalling: argument lists of every length and type, a host that answers
\* and one that does not.
ArgLists ==
  { <<>>, <<LStr(STR_OK)>>, <<LStr(<<>>)>>, <<LNum(-2, 0)>>,
    <<LStr(STR_OK), LNum(42, 0), LNum(1, 5), LBool(TRUE), LBool(FALSE)>>,
    <<LBool(FALSE), LStr(<<0, 255>>)>>,
    <<LStr(STR_OK), LNil>>, <<LFun>>, <<LStr(STR_OK), ArrayOf(<<>>), LNum(1, 0)>> }

MarshalScripts ==
  { CallScript(op, argv, h) :
      op \in {"call", "pcall"}, argv \in ArgLists,
      h \in {NoBuffer, HostBuffer(FText(REPLY_STATUS, MSG_OK))} }
    \cup { OneBurner }

NextMarshal ==
  \/ \E created \in BOOLEAN : init(created) /\ UNCHANGED <<hist, heap>>
  \/ \E created \in BOOLEAN : reset(created) /\ UNCHANGED <<hist, heap>>
  \/ LimitsOff /\ UNCHANGED <<hist, heap>>
  \/ \E s \in MarshalScripts : eval(s, {}) /\ UNCHANGED <<hist, heap>>
  \/ \E s \in MarshalScripts :
       eval_with_args(s, SmokeFrame, 1, {}, 0) /\ UNCHANGED <<hist, heap>>
  \/ fuel_hook /\ UNCHANGED <<hist, heap>>
  \/ eval_return /\ UNCHANGED <<hist, heap>>

SpecMarshal == Init /\ [][NextMarshal]_vars

\* Calls one after the other: scripts that report KEYS and ARGV, keep them in a
\* global or burn fuel; frames that are accepted, refused or over the cap.
LeakScripts == { Op("args"), Op("stash"), OneBurner }

LeakFrames ==
  { Frame(0, <<>>), Frame(1, <<Item(<<97>>)>>), SmokeFrame,
    Frame(2, <<Item(<<97>>)>>) }

NextLeak ==
  \/ \E created \in BOOLEAN : init(created) /\ UNCHANGED <<hist, heap>>
  \/ \E created \in BOOLEAN : reset(created) /\ UNCHANGED <<hist, heap>>
  \/ \E f \in {0, 1500}, a \in ArgCaps : set_limits(f, 0, a) /\ UNCHANGED <<hist, heap>>
  \/ \E s \in LeakScripts : eval(s, {}) /\ UNCHANGED <<hist, heap>>
  \/ \E s \in LeakScripts, args \in LeakFrames, k \in {0, 1} :
       eval_with_args(s, args, k, {}, 0) /\ UNCHANGED <<hist, heap>>
  \/ fuel_hook /\ UNCHANGED <<hist, heap>>
  \/ eval_return /\ UNCHANGED <<hist, heap>>

SpecLeak == Init /\ [][NextLeak]_vars

-----------------------------------------------------------------------------
(* What the claims speak of.                                                *)

FUEL_WORD == Str(<<"f","u","e","l">>)

Evals == {"eval", "eval_with_args"}

\* The last export call was eval or eval_with_args, and it has returned.
Returned == pc = "idle" /\ last.op \in Evals

\* The frame of an Error reply whose payload is exactly msg.
ErrorFrame(msg) == <<REPLY_ERROR>> \o write_u32_le(U32Of(Len(msg))) \o msg

IsErrorReply(r) == r.ptr # 0 /\ r.len >= 5 /\ r.bytes[1] = REPLY_ERROR

Payload(r) == SubSeq(r.bytes, 6, Len(r.bytes))

Contains(hay, needle) ==
  \E i \in 0..(Len(hay) - Len(needle)) : SubSeq(hay, i + 1, i + Len(needle)) = needle

Sandboxed(L) ==
  /\ \A n \in {"io", "os", "debug", "package", "require", "dofile", "loadfile",
               "math.random", "math.randomseed"} : L.globals[n] = "nil"
  /\ \A n \in {"cjson", "cmsgpack", "struct", "bit"} : L.globals[n] = "table"
  /\ L.globals["redis"] = "table"
  /\ {"call", "pcall", "log", "sha1hex", "error_reply", "status_reply", "setresp"}
       \subseteq L.redis

Fresh(L) ==
  /\ Sandboxed(L)
  /\ L.x = LNil /\ L.KEYS = LNil /\ L.ARGV = LNil
  /\ L.hookcount = FUEL_HOOK_STEP

\* C1 (as claimed): whatever fuel limit >= 1 is in force, a script that needs more
\* than that many instructions to return ends in an Error reply whose payload
\* contains "fuel".
C1_FuelBound ==
  (Returned /\ last.ran /\ last.script.len > g_fuel_limit)
    => (IsErrorReply(last.reply) /\ Contains(Payload(last.reply), FUEL_WORD))

\* C2 (as claimed): once the fuel counter is <= 0 the running script is terminated;
\* it is never found still executing with the counter at or below zero.
C2_NoCodeAfterFuelOut ==
  ~(pc = "running" /\ call.state = "run" /\ g_fuel_remaining <= 0)

\* C3: with no interpreter, eval and eval_with_args return the Error reply "ERR Lua
\* VM not initialized" at once, run no script, invoke no host import and leave the
\* guest's state (fuel counter, limits, interpreter pointer, interpreters) as it was.
\* The reply's own allocations succeed.
C3_NoInterpreter ==
  [][ (pc = "idle" /\ g_state = NULL /\ last'.op \in Evals /\ last'.fails = {})
        => /\ pc' = "idle"
           /\ last'.reply.bytes = ErrorFrame(MSG_NOT_INIT)
           /\ last'.reply.len = Len(ErrorFrame(MSG_NOT_INIT))
           /\ ~last'.ran
           /\ last'.hostcalls = 0
           /\ UNCHANGED guest ]_vars

C3_Witness ==
  /\ Returned /\ g_state = NULL
  /\ last.reply.bytes = ErrorFrame(MSG_NOT_INIT)
  /\ g_fuel_remaining # g_fuel_limit

\* C4: reset without an interpreter returns -1 and leaves none; init, and reset with
\* an interpreter, destroy the old one and either install one fresh interpreter,
\* set the fuel counter to the fuel limit and return 0, or (creation failed) return
\* -1 and leave none.  At most one interpreter exists at any time, and g_state
\* points to it.
OneInterpreter ==
  /\ Cardinality(DOMAIN lua) <= 1
  /\ IF g_state = NULL THEN DOMAIN lua = {} ELSE DOMAIN lua = {g_state}

Recreated ==
  \/ /\ last'.rc = 0
     /\ g_state' # NULL
     /\ DOMAIN lua' = {g_state'}
     /\ Fresh(lua'[g_state'])
     /\ g_fuel_remaining' = g_fuel_limit'
  \/ /\ last'.rc = -1
     /\ g_state' = NULL
     /\ DOMAIN lua' = {}

C4_Lifecycle ==
  /\ []OneInterpreter
  /\ [][ /\ (pc = "idle" /\ last'.op = "reset" /\ g_state = NULL)
              => (last'.rc = -1 /\ g_state' = NULL /\ DOMAIN lua' = {})
         /\ (pc = "idle" /\ last'.op = "reset" /\ g_state # NULL) => Recreated
         /\ (pc = "idle" /\ last'.op = "init") => Recreated ]_vars

C4_Witness ==
  /\ pc = "idle" /\ last.op = "reset" /\ last.rc = 0
  /\ g_state # NULL /\ g_fuel_remaining = 1500

\* C5 (as claimed): reset followed by eval_with_args, done twice in a row with the
\* same script, frame and keys_count, returns byte-identical replies.
C5_Deterministic ==
  hist.stage = 4
    => (hist.first.bytes = hist.second.bytes /\ hist.first.len = hist.second.len)

\* C6 (as claimed): whenever an interpreter exists, the removed globals are nil, the
\* four modules are tables and the bridge namespace is installed.
C6_Sandbox == g_state # NULL => Sandboxed(lua[g_state])

\* The frame the encoder builds for a returned value when every allocation succeeds.
Encoded(v) == encode_lua_value(v, rb_init(0), {})

\* C7: when the script returns a value that can be encoded (and the allocator does
\* not fail), the reply is the Error "ERR reply exceeds configured limit" if
\* max_reply_bytes > 0 and the value's frame, header included, is longer than
\* max_reply_bytes; otherwise it is the value's frame, unchanged.
C7_ReplyLimit ==
  (Returned /\ last.ran /\ ~last.raised /\ last.top > 0 /\ last.fails = {}
     /\ Encoded(last.val).rc = 0)
    => LET F == Encoded(last.val).rb.data
       IN  IF g_max_reply_bytes > 0 /\ Len(F) > g_max_reply_bytes
           THEN /\ last.reply.bytes = ErrorFrame(MSG_REPLY_LIMIT)
                /\ last.reply.len = Len(ErrorFrame(MSG_REPLY_LIMIT))
           ELSE /\ last.reply.bytes = F
                /\ last.reply.len = Len(F)

\* A value whose frame is exactly as long as the cap is returned; one byte more and
\* the same cap would refuse it.
C7_Witness ==
  /\ Returned /\ last.fails = {} /\ g_max_reply_bytes = 12
  /\ last.val = LStr(STR_TOOLONG)
  /\ last.reply.bytes = Encoded(LStr(STR_TOOLONG)).rb.data
  /\ Len(Encoded(LNum(42, 0)).rb.data) > g_max_reply_bytes

\* C8 (as claimed): with max_reply_bytes > 0, every reply eval and eval_with_args
\* return, on every path, is at most max_reply_bytes long.
C8_AllCapped ==
  (Returned /\ g_max_reply_bytes > 0) => last.reply.len <= g_max_reply_bytes

\* C8 (amended): with max_reply_bytes > 0, every reply that carries the script's
\* encoded result is at most max_reply_bytes long; Status OK and the Error replies
\* the runtime builds itself are not subject to the cap.
C8_ValueCapped ==
  (Returned /\ g_max_reply_bytes > 0 /\ last.path = "value")
    => (last.reply.len <= g_max_reply_bytes /\ Len(last.reply.bytes) = last.reply.len)

C8_Witness ==
  /\ Returned /\ last.path = "value" /\ last.op = "eval_with_args"
  /\ g_max_reply_bytes = 12 /\ last.reply.len = 12

\* C9 (as claimed): with max_arg_bytes > 0 and args_len > max_arg_bytes,
\* eval_with_args returns the Error reply whose payload is exactly "ERR KEYS/ARGV
\* exceeds configured limit" and whose count_or_len is that message's length, reads
\* nothing of the frame, runs no script and leaves KEYS and ARGV as they were.
C9_ArgLimit ==
  [][ (pc = "idle" /\ g_state # NULL /\ last'.op = "eval_with_args"
         /\ g_max_arg_bytes > 0 /\ Len(last'.args) > g_max_arg_bytes)
        => /\ pc' = "idle"
           /\ last'.reply.bytes = ErrorFrame(MSG_ARG_LIMIT)
           /\ last'.reply.len = Len(ErrorFrame(MSG_ARG_LIMIT))
           /\ last'.maxread = -1
           /\ ~last'.ran
           /\ lua' = lua ]_vars

\* n items, each a 4-byte length and that many bytes, lie within buf from offset on
\* (plain integers, no wrapping).
RECURSIVE ItemsFit(_, _, _)
ItemsFit(buf, n, offset) ==
  \/ n = 0
  \/ /\ offset + 4 <= Len(buf)
     /\ LET item_len == read_u32_le(buf, offset)
        IN  /\ item_len.hi = 0
            /\ offset + 4 + item_len.lo <= Len(buf)
            /\ ItemsFit(buf, n - 1, offset + 4 + item_len.lo)

\* A frame no longer than 2^16 bytes is well formed for keys_count.
WellFormed(buf, keys_count) ==
  /\ Len(buf) >= 4
  /\ LET count == read_u32_le(buf, 0)
     IN  /\ count.hi = 0
         /\ keys_count <= count.lo
         /\ ItemsFit(buf, count.lo, 4)

\* C10 (as claimed): a frame that is not well formed (and is within the argument
\* cap) always gets the Error reply with payload "ERR invalid KEYS/ARGV encoding";
\* the script does not run and no byte at an offset >= args_len is read.
C10_FrameValidation ==
  /\ pc = "aborted" => WellFormed(call.args, call.keys_count)
  /\ (Returned /\ last.op = "eval_with_args"
        /\ last.path \notin {"not_initialized", "arg_limit"}
        /\ ~WellFormed(last.args, last.keys_count))
       => /\ last.reply.bytes = ErrorFrame(MSG_INVALID_ARGS)
          /\ ~last.ran
          /\ ~last.oob
          /\ last.maxread < Len(last.args)

\* The n items of a well-formed frame, from offset on, each as its bytes.
RECURSIVE ItemsOf(_, _, _)
ItemsOf(buf, n, offset) ==
  IF n = 0 THEN <<>>
  ELSE LET item_len == read_u32_le(buf, offset).lo
       IN  <<SubSeq(buf, offset + 5, offset + 4 + item_len)>>
             \o ItemsOf(buf, n - 1, offset + 4 + item_len)

\* The script of the running call was started by eval_with_args.
StartedWithArgs == pc = "running" /\ call.entry = "eval_with_args"

\* C11: the script eval_with_args starts on a well-formed frame of n items with
\* keys_count k <= n sees KEYS = items 1..k and ARGV = items k+1..n, tables of
\* exactly those lengths, every item byte for byte (zero bytes included).
C11_Partition ==
  (StartedWithArgs /\ WellFormed(call.args, call.keys_count))
    => LET n == read_u32_le(call.args, 0).lo
           k == call.keys_count
           items == ItemsOf(call.args, n, 4)
           L == lua[g_state]
       IN  /\ L.KEYS = ArrayOf([i \in 1..k |-> LStr(items[i])])
           /\ L.ARGV = ArrayOf([j \in 1..(n - k) |-> LStr(items[k + j])])
           /\ lua_objlen(L.KEYS) = k
           /\ lua_objlen(L.ARGV) = n - k

C11_Witness ==
  /\ StartedWithArgs /\ call.args = SmokeFrame /\ call.keys_count = 1
  /\ lua[g_state].KEYS = ArrayOf(<<LStr(<<0, 1, 2>>)>>)
  /\ lua[g_state].ARGV = ArrayOf(<<LStr(<<3, 0, 4>>)>>)

\* The end (an offset) of the well-formed reply frame that starts at offset at of
\* b, or -1 when there is none: plain integers, the footprint the header implies.
RECURSIVE FrameEnd(_, _)
RECURSIVE ChildrenEnd(_, _, _)
ChildrenEnd(b, at, n) ==
  IF n = 0 THEN at
  ELSE IF FrameEnd(b, at) < 0 THEN -1
  ELSE ChildrenEnd(b, FrameEnd(b, at), n - 1)

FrameEnd(b, at) ==
  IF at + 5 > Len(b) THEN -1
  ELSE LET tag == b[at + 1]
           n == read_u32_le(b, at + 1)
       IN  CASE n.hi > 0 -> -1
             [] n.hi = 0 /\ tag = REPLY_NULL -> at + 5
             [] n.hi = 0 /\ tag = REPLY_INT ->
                  IF n.lo = 8 /\ at + 13 <= Len(b) THEN at + 13 ELSE -1
             [] n.hi = 0 /\ tag \in {REPLY_BULK, REPLY_STATUS, REPLY_ERROR} ->
                  IF at + 5 + n.lo <= Len(b) THEN at + 5 + n.lo ELSE -1
             [] n.hi = 0 /\ tag = REPLY_ARRAY -> ChildrenEnd(b, at + 5, n.lo)
             [] OTHER -> -1

\* b is one well-formed reply frame, no more and no less.
WellFramed(b) == FrameEnd(b, 0) = Len(b)

\* The host's answer to the bridge call of the last script, a well-formed frame.
Answered(op) == Returned /\ last.script.op = op /\ last.hostcalls = 1

WellAnswered(op) ==
  Answered(op) /\ last.script.val.ptr # 0 /\ WellFramed(last.script.val.bytes)

\* C12 (as claimed): on a well-formed host reply redis.call raises a script error
\* exactly when the reply is an Error reply, the Error bytes being the message; on
\* a reply of any other kind it returns the value redis.pcall returns for it.
C12_CallSide ==
  WellAnswered("call")
    => LET h == last.script.val
           is_error == h.bytes[1] = REPLY_ERROR
           p == redis_call_common(<<LStr(STR_OK)>>, h, FALSE)
       IN  /\ last.raised <=> is_error
           /\ is_error => last.reply.bytes = ErrorFrame(Payload(h))
           /\ ~is_error => (last.top = 1 /\ last.val = p.val)

\* The script value {err = bytes}.
ErrTable(bytes) == LTab(LNil, LStr(bytes), <<>>)

\* C13 (as claimed): whatever the host answers to redis.pcall, pcall raises no
\* script error, and it returns {err = bytes} exactly when the answer is an Error
\* reply.
C13_PcallSide ==
  Answered("pcall")
    => /\ ~last.raised
       /\ (last.top = 1 /\ last.val = ErrTable(Payload(last.script.val)))
            <=> IsErrorReply(last.script.val)

\* C13 (amended): on a well-formed host reply redis.pcall raises no script error
\* and returns {err = bytes} exactly when the reply is an Error reply (at top
\* level); on the pair (0, 0), or a pair with len = 0, it raises "ERR empty reply
\* from host".
C13_PcallWellFormed ==
  /\ WellAnswered("pcall")
       => /\ ~last.raised
          /\ (last.top = 1 /\ last.val = ErrTable(Payload(last.script.val)))
               <=> IsErrorReply(last.script.val)
  /\ (Answered("pcall") /\ (last.script.val.ptr = 0 \/ last.script.val.len = 0))
       => (last.raised /\ last.reply.bytes = ErrorFrame(luaL_error(MSG_EMPTY_REPLY)))

C13_Witness ==
  /\ WellAnswered("pcall")
  /\ last.script.val.bytes = FText(REPLY_ERROR, MSG_BOOM)
  /\ last.val = ErrTable(MSG_BOOM)
  /\ last.reply.bytes = FText(REPLY_ERROR, MSG_BOOM)

\* C14 (as claimed): on every exit path of redis.call, redis.pcall and
\* redis.sha1hex the guest frees the buffer the host import returned exactly once
\* when its ptr is not 0, and never when the pair is (0, 0).
C14_HostReplyFreed ==
  (Answered("call") \/ Answered("pcall") \/ Answered("sha1hex"))
    => last.hostfreed = (IF last.script.val.ptr # 0 THEN 1 ELSE 0)

\* C17 (as claimed): a well-formed reply decoded as redis.pcall decodes it and
\* encoded again as eval encodes a returned value gives back the same frame, the
\* decoder's cursor ending at the frame's length.
C17_RoundTrip ==
  WellAnswered("pcall")
    => /\ last.reply.bytes = last.script.val.bytes
       /\ last.cursor = last.script.val.len

\* C15 (as claimed): every call of eval and eval_with_args, also when an
\* allocation fails while the reply is built, returns a well-formed reply frame
\* with ptr # 0 and len >= 5, never the pair (0, 0).
C15_AlwaysAReply ==
  Returned
    => /\ last.reply.ptr # 0
       /\ last.reply.len >= 5
       /\ WellFramed(last.reply.bytes)

ERR_PREFIX == Str(<<"E","R","R"," ">>)

\* A readable ASCII text: printable characters only.
IsText(bytes) == \A i \in 1..Len(bytes) : bytes[i] >= 32 /\ bytes[i] <= 126

FailurePaths ==
  {"not_initialized", "load_error", "exec_error", "unsupported", "reply_limit",
   "encoding_failed", "arg_limit", "invalid_args"}

\* C16 (as claimed): every failure of eval and eval_with_args comes back (the
\* allocator not failing) as an Error reply whose count_or_len is the payload's
\* length and whose payload is an ASCII text starting with "ERR ", or else is the
\* literal fuel message.
C16_ErrorRendering ==
  (Returned /\ last.fails = {} /\ last.path \in FailurePaths)
    => /\ IsErrorReply(last.reply)
       /\ read_u32_le(last.reply.bytes, 1) = U32Of(Len(Payload(last.reply)))
       /\ \/ Payload(last.reply) = MSG_FUEL
          \/ /\ IsText(Payload(last.reply))
             /\ Len(Payload(last.reply)) >= 4
             /\ SubSeq(Payload(last.reply), 1, 4) = ERR_PREFIX

\* C18: every reply frame eval and eval_with_args return has a 5-byte header with a
\* tag in 0..5, and its length is the footprint the header implies: 5 for Null, 13
\* for Int with count_or_len 8, 5 + count_or_len for Bulk, Status and Error, and
\* for Array the header plus exactly count_or_len well-formed child frames.
C18_Framing ==
  (Returned /\ last.reply.ptr # 0)
    => /\ last.reply.len = Len(last.reply.bytes)
       /\ last.reply.len >= 5
       /\ last.reply.bytes[1] \in {REPLY_NULL, REPLY_INT, REPLY_BULK, REPLY_ARRAY,
                                  REPLY_STATUS, REPLY_ERROR}
       /\ WellFramed(last.reply.bytes)

C18_Witness ==
  /\ Returned /\ last.reply.ptr # 0 /\ last.path = "value"
  /\ last.val = ArrayOf(<<LNil, LNum(1, 0)>>)
  /\ last.reply.bytes = FArray(<<FNull, FInt(1)>>)

\* C19: set_limits(f, r, a) sets the reply cap to r and the argument cap to a, sets
\* the fuel limit to f when f > 0 and leaves it when f = 0, and changes neither the
\* remaining fuel nor the interpreter; the fuel limit in force is what the next
\* eval or eval_with_args refills the counter with.
C19_SetLimits ==
  [][ /\ (pc = "idle" /\ last'.op = "set_limits")
           => /\ g_max_reply_bytes' = last'.limits[2]
              /\ g_max_arg_bytes' = last'.limits[3]
              /\ g_fuel_limit' = IF last'.limits[1] > 0 THEN last'.limits[1]
                                 ELSE g_fuel_limit
              /\ UNCHANGED <<g_fuel_remaining, g_state, lua, g_resp_version>>
      /\ (pc = "idle" /\ g_state # NULL /\ (pc' = "running" \/ last'.op \in Evals))
           => g_fuel_remaining' = g_fuel_limit
      /\ (pc = "idle" /\ last'.op \in {"init", "reset"} /\ last' # last
            /\ g_state' # NULL)
           => g_fuel_remaining' = g_fuel_limit ]_vars

\* A new, lower fuel limit is in place while the counter still holds what the
\* last script left of the old one.
C19_Witness ==
  /\ pc = "idle" /\ last.op = "set_limits" /\ last.limits = <<1500, 12, 8>>
  /\ g_fuel_limit = 1500 /\ g_max_reply_bytes = 12 /\ g_max_arg_bytes = 8
  /\ g_state # NULL /\ g_fuel_remaining = 1000

\* How often the requests ev release the block b (free, or realloc away from it).
Released(ev, b) ==
  Cardinality({i \in 1..Len(ev) : ev[i].op \in {"free", "realloc"} /\ ev[i].blk = b})

\* C20: every reply with ptr # 0 that eval or eval_with_args returns is a block
\* of its own that this call allocated and did not free, no call frees or returns
\* again a block the host holds (an init or reset in between included), so every
\* free_mem by the host finds its block live; and every scratch buffer a call
\* allocates is released exactly once before the call returns.
C20_ReplyOwnership ==
  /\ heap.err = {}
  /\ \A a \in Addrs : heap.own[a] \in {"free", "lua", "host"}
  /\ heap.L # 0 <=> g_state # NULL
  /\ heap.L # 0 => heap.own[heap.L] = "lua"
  /\ Cardinality({a \in Addrs : heap.own[a] = "lua"}) <= 1
  /\ heap.reply # 0 => heap.own[heap.reply] = "host"
  /\ Returned =>
       /\ \A i \in 1..Len(last.ev) :
            /\ last.ev[i].op = "realloc" => Released(last.ev, last.ev[i].to) = 1
            /\ last.ev[i].op = "malloc" => Released(last.ev, last.ev[i].to) = 0
            /\ (last.ev[i].op = "free" /\ last.ev[i].blk # 0)
                 => Released(last.ev, last.ev[i].blk) = 1
       /\ last.reply.ptr = 0 => heap.reply = 0
       /\ last.reply.ptr # 0 =>
            \E i \in 1..Len(last.ev) :
              last.ev[i].op = "malloc" /\ last.ev[i].to = last.blk

\* The host has freed a reply after a reset, still holds one from before, and
\* gets a new one from a call whose first reply copy could not be allocated.
C20_Witness ==
  /\ Returned /\ last.reply.ptr # 0 /\ last.path = "encoding_failed"
  /\ heap.after = "reset"
  /\ Cardinality(Held(heap)) = 2

\* The frame a returned value maps to, read off the mapping as it is stated
\* (<<>>: the value cannot be encoded).  An array part is taken whole.
RECURSIVE Mapped(_)
RECURSIVE MappedItems(_, _)
MappedItems(arr, i) ==
  IF i > Len(arr) THEN <<>>
  ELSE <<Mapped(arr[i])>> \o MappedItems(arr, i + 1)

Mapped(v) ==
  CASE v.t = "nil" -> FNull
    [] v.t = "boolean" -> IF v.b THEN FInt(1) ELSE FNull
    [] v.t = "number" ->
         IF v.fr = 0 THEN FInt(v.ip) ELSE FText(REPLY_BULK, NumStr(v))
    [] v.t = "string" -> FText(REPLY_BULK, v.s)
    [] v.t = "table" ->
         IF v.ok.t = "string" THEN FText(REPLY_STATUS, v.ok.s)
         ELSE IF v.err.t = "string" THEN FText(REPLY_ERROR, v.err.s)
         ELSE IF \E i \in 1..Len(v.arr) : Mapped(v.arr[i]) = <<>> THEN <<>>
         ELSE FArray(MappedItems(v.arr, 1))
    [] OTHER -> <<>>

\* C21 (as claimed): a returned table with a string ok gives Status(ok); else
\* with a string err gives Error(err); else gives the Array of the encodings of
\* its elements in index order, or the error "ERR unsupported Lua return type"
\* when an element cannot be encoded.  (No reply cap, no failing allocation.)
C21_TableMapping ==
  (Returned /\ last.ran /\ ~last.raised /\ last.top > 0 /\ last.val.t = "table"
     /\ g_max_reply_bytes = 0)
    => IF Mapped(last.val) = <<>>
       THEN /\ IsErrorReply(last.reply)
            /\ SubSeq(Payload(last.reply), 1, Len(MSG_UNSUPPORTED)) = MSG_UNSUPPORTED
       ELSE last.reply.bytes = Mapped(last.val)

\* The bytes an argument is to be sent as.
ArgBytes(v) ==
  CASE v.t = "string" -> v.s
    [] v.t = "number" -> NumStr(v)
    [] v.t = "boolean" -> IF v.b THEN Str(<<"1">>) ELSE Str(<<"0">>)

Sendable(argv) ==
  argv # <<>> /\ \A i \in 1..Len(argv) : argv[i].t \in {"string", "number", "boolean"}

\* C22: redis.call and redis.pcall invoke the host import at most once; with no
\* argument, or with an argument that is no string, number or boolean, they raise
\* a script error and do not invoke it; otherwise they invoke it once with a
\* frame whose count is the number of arguments and whose items are the
\* arguments' bytes in order, true as "1" and false as "0", and nothing after.
C22_Marshalling ==
  (Returned /\ last.ran /\ last.script.op \in {"call", "pcall"})
    => LET argv == last.script.argv
           req == last.request
       IN  IF ~Sendable(argv)
           THEN last.hostcalls = 0 /\ last.raised /\ req = <<>>
           ELSE /\ last.hostcalls = 1
                /\ Len(req) >= 4
                /\ read_u32_le(req, 0) = U32Of(Len(argv))
                /\ ItemsOf(req, Len(argv), 4) = [i \in 1..Len(argv) |-> ArgBytes(argv[i])]
                /\ Len(req) = 4 + 4 * Len(argv)
                              + Len(Concat([i \in 1..Len(argv) |-> ArgBytes(argv[i])]))

\* Five arguments of all three kinds went to the host as
\* 05 | "ok" | "42" | "1.5" | "1" | "0".
C22_Witness ==
  /\ Returned /\ last.script.op = "pcall" /\ last.hostcalls = 1 /\ ~last.raised
  /\ Len(last.script.argv) = 5
  /\ last.request = <<5, 0, 0, 0, 2, 0, 0, 0, 111, 107, 2, 0, 0, 0, 52, 50,
                      3, 0, 0, 0, 49, 46, 53, 1, 0, 0, 0, 49, 1, 0, 0, 0, 48>>

\* Where the decoding of the frame at offset at of b ends, or -1 when one of the
\* listed failures occurs: the header or a payload runs past the end, a child of
\* an Array fails, or the tag is none of 0..5.  Plain integers; a length of
\* 2^16 or more exceeds every buffer here.
RECURSIVE DecodeEnd(_, _)
RECURSIVE DecodeChildren(_, _, _)
DecodeChildren(b, at, n) ==
  IF n = 0 THEN at
  ELSE IF DecodeEnd(b, at) < 0 THEN -1
  ELSE DecodeChildren(b, DecodeEnd(b, at), n - 1)

DecodeEnd(b, at) ==
  IF at + 5 > Len(b) THEN -1
  ELSE LET tag == b[at + 1]
           n == read_u32_le(b, at + 1)
       IN  CASE tag = REPLY_NULL -> at + 5
             [] tag = REPLY_INT -> IF at + 13 > Len(b) THEN -1 ELSE at + 13
             [] tag \in {REPLY_BULK, REPLY_STATUS, REPLY_ERROR} ->
                  IF n.hi > 0 \/ at + 5 + n.lo > Len(b) THEN -1 ELSE at + 5 + n.lo
             [] tag = REPLY_ARRAY ->
                  IF n.hi > 0 THEN -1 ELSE DecodeChildren(b, at + 5, n.lo)
             [] OTHER -> -1

\* C23 (as claimed): whenever the host's reply cannot be decoded (a header or a
\* payload past the end, a failing Array child, a tag outside 0..5), at top level
\* or inside an Array, the decoder reads nothing past the buffer and the call
\* raises the script error "ERR reply decoding failed".
C23_DecodeFailure ==
  /\ pc = "aborted" => call.script.op \notin {"call", "pcall"}
  /\ (Returned /\ last.script.op \in {"call", "pcall"} /\ last.hostcalls = 1
        /\ last.script.val.ptr # 0 /\ last.script.val.len > 0
        /\ DecodeEnd(last.script.val.bytes, 0) < 0)
       => /\ last.raised
          /\ last.cursor <= last.script.val.len
          /\ IsErrorReply(last.reply)
          /\ Contains(Payload(last.reply), MSG_DECODE_FAILED)

\* The table of strings a script sees for the items from..to of a frame.
Strings(items, from, to) == ArrayOf([i \in 1..(to - from + 1) |-> LStr(items[from + i - 1])])

\* What the script `return {KEYS, ARGV}` of the call observed as o is to return.
OwnArgs(o) ==
  IF o.op = "eval" THEN ArrayOf(<<ArrayOf(<<>>), ArrayOf(<<>>)>>)
  ELSE LET n == read_u32_le(o.args, 0).lo
           items == ItemsOf(o.args, n, 4)
       IN  ArrayOf(<<Strings(items, 1, o.keys_count),
                     Strings(items, o.keys_count + 1, n)>>)

C25_LimitsSurvive ==
  /\ g_fuel_limit = DEFAULT_FUEL_LIMIT /\ g_max_reply_bytes = 0 /\ g_max_arg_bytes = 0
  /\ [][ last'.op # "set_limits"
           => UNCHANGED <<g_fuel_limit, g_max_reply_bytes, g_max_arg_bytes>> ]_vars

\* A reset has just replaced the interpreter, and the limits are those a
\* set_limits call before it had set.
C25_Witness ==
  /\ pc = "idle" /\ last.op = "reset" /\ last.rc = 0 /\ g_state # NULL
  /\ g_fuel_limit = 2000 /\ g_fuel_remaining = 2000
  /\ g_max_reply_bytes = 12 /\ g_max_arg_bytes = 8

====
